---- MODULE Spec2Model ----
(***************************************************************************)
(* The vault engine of secrets-manager (src/src/core/vault.ts) with the    *)
(* crypto primitives, the vault_meta / secrets / audit_logs tables and the *)
(* auto-lock timer it drives.                                              *)
(*                                                                         *)
(* Time is counted in minutes: Date.now() is `now`, a timeout of n minutes *)
(* (n * 60 * 1000 ms) is n, LOCKOUT_DURATION_MS (5 * 60 * 1000) is 5.      *)
(* Random values (salt, IV, UUID) are opaque tokens: a fresh one is the    *)
(* least token that is stored nowhere, so two tokens are equal only when   *)
(* one was copied from the other.                                          *)
(***************************************************************************)
EXTENDS Integers, Sequences, FiniteSets, TLC

\* ------------------------------------------------------------ bounds
MaxTime == 6        \* the clock stops here
MaxAudit == 4       \* audit_logs holds at most this many rows in the model
MaxCalls == 5       \* a session of the secret store makes at most this many calls
MaxTimed == 4       \* calls made while the auto-lock timer is watched
MaxRekey == 6       \* calls made in a run that changes the master password

\* ------------------------------------------------- program constants
MAX_SECRET_VALUE_SIZE == 65536
MAX_FAILED_ATTEMPTS == 3
LOCKOUT_DURATION_MIN == 5
DEFAULT_AUTO_LOCK_TIMEOUT == 15

PASSWORD_VERIFICATION_VALUE == "secrets-manager-v1"
SCHEMA_VERSION == "1.0.0"

\* null / undefined / no such row, and the empty string '' of a text column
NoVal == -1
Empty == -2

Handles == {1, 2}
Passwords == {"p1", "p2"}
Keys == {"K1", "K2"}
Environments == {"dev", "prod", "all"}
Values == {"v1", "v2"}

VARIABLES
  now,      \* Date.now(), in minutes
  exists,   \* existsSync(dbPath): the vault file
  meta,     \* table vault_meta
  secrets,  \* table secrets: the rows in rowid order
  audit,    \* table audit_logs: the rows in insertion order
  hs,       \* hs[h]: the fields of VaultManager handle h
  last,     \* the latest call and what it returned or threw
  hist,     \* history: what the calls so far amount to (read by no operation)
  calls,    \* how many calls the session of the secret store has made
  files     \* the files beside the vault database: files.session

vars == <<now, exists, meta, secrets, audit, hs, last, hist, calls, files>>

\* ----------------------------------------------------------- helpers
Min(S) == CHOOSE x \in S : \A y \in S : x <= y

\* the least token >= 1 outside `used`
Fresh(used) == Min({n \in 1..(Cardinality(used) + 1) : n \notin used})

\* ------------------------------------------------------------ crypto
NoKey == [pw |-> "", salt |-> 0]
NoCipher == [mk |-> NoKey, pt |-> "", iv |-> 0]

\* PBKDF2: one key per (password, salt)
deriveMasterKey(password, salt) == [pw |-> password, salt |-> salt]

\* AES-256-GCM under masterKey with the IV iv: base64(iv || tag || data)
encrypt(masterKey, plaintext, iv) == [mk |-> masterKey, pt |-> plaintext, iv |-> iv]

\* the auth tag verifies only under the key that made the blob
DecryptOk(masterKey, c) == c # NoCipher /\ c.mk = masterKey

decrypt(masterKey, c) == IF DecryptOk(masterKey, c) THEN c.pt ELSE "DecryptionFailed"

verifyPassword(masterKey, testValue, c) ==
  DecryptOk(masterKey, c) /\ decrypt(masterKey, c) = testValue

\* ------------------------------------------------------------- store
NoMeta == [salt |-> NoVal, version |-> "", created_at |-> NoVal,
           auto_lock_timeout |-> NoVal, sentinel |-> NoCipher,
           failed_attempts |-> NoVal, lockout_until |-> NoVal]

World == [exists |-> exists, meta |-> meta, secrets |-> secrets,
          audit |-> audit, hs |-> hs]

UsedSalts(w) ==
  {w.meta.salt, w.meta.sentinel.mk.salt}
    \cup {w.secrets[i].value.mk.salt : i \in 1..Len(w.secrets)}
    \cup {w.hs[h].cryptoManager.salt : h \in Handles}

UsedIVs(w) == {w.meta.sentinel.iv} \cup {w.secrets[i].value.iv : i \in 1..Len(w.secrets)}

UsedIds(w) == {w.secrets[i].id : i \in 1..Len(w.secrets)}

generateSalt(w) == Fresh(UsedSalts(w))
generateIV(w) == Fresh(UsedIVs(w))
randomUUID(w) == Fresh(UsedIds(w))

vaultExists(w) == w.exists

\* what a call hands back: the world it leaves, the error it threw ("" for
\* none), the string and the number it returned or the error carried, and the
\* number of key derivations (PBKDF2 runs) it made
NoMap == <<>>
Out(w, err, ret, n) ==
  [w |-> w, err |-> err, ret |-> ret, n |-> n, kdf |-> 0, map |-> NoMap,
   rows |-> <<>>]
Mapped(out, m) == [out EXCEPT !.map = m]
Derived(out, k) == [out EXCEPT !.kdf = @ + k]
Threw(w, err) == Out(w, err, "", NoVal)
ThrewN(w, err, n) == Out(w, err, "", n)
Returned(w, ret) == Out(w, "", ret, NoVal)

SetH(w, h, s) == [w EXCEPT !.hs[h] = s]

\* ------------------------------------------------------ VaultManager
NewVaultManager(fileExists) ==
  [vaultState |-> IF fileExists THEN "locked" ELSE "not_initialized",
   cryptoManager |-> NoKey,
   db |-> FALSE,
   auditLogger |-> FALSE,
   autoLockTimer |-> NoVal,
   autoLockTimeout |-> DEFAULT_AUTO_LOCK_TIMEOUT,
   failedAttempts |-> 0,
   lockoutUntil |-> NoVal]

isInitialized(w) == vaultExists(w)
isLocked(s) == s.cryptoManager = NoKey
getState(s) == s.vaultState

clearAutoLockTimer(s) == [s EXCEPT !.autoLockTimer = NoVal]

startAutoLockTimer(s, t) ==
  [clearAutoLockTimer(s) EXCEPT !.autoLockTimer = t + s.autoLockTimeout]

resetAutoLockTimer(s, t) == IF ~isLocked(s) THEN startAutoLockTimer(s, t) ELSE s

\* variant: activity does not re-arm the timer
touchActivity_idle(s, t) == s

touchActivity(s, t) == resetAutoLockTimer(s, t)

\* variant: the persisted deadline is not read back
loadLockoutState_noDeadline(s, m) ==
  IF ~s.db THEN s
  ELSE [s EXCEPT
          !.failedAttempts = IF m.failed_attempts # NoVal THEN m.failed_attempts ELSE @]

loadLockoutState(s, m) ==
  IF ~s.db THEN s
  ELSE [s EXCEPT
          !.failedAttempts = IF m.failed_attempts # NoVal THEN m.failed_attempts ELSE @,
          !.lockoutUntil = IF m.lockout_until # NoVal /\ m.lockout_until # Empty
                           THEN m.lockout_until ELSE @]

\* variant: the counter is not written
persistLockoutState_noCount(m, s) ==
  IF ~s.db THEN m
  ELSE [m EXCEPT !.lockout_until = IF s.lockoutUntil # NoVal THEN s.lockoutUntil ELSE Empty]

persistLockoutState(m, s) ==
  IF ~s.db THEN m
  ELSE [m EXCEPT !.failed_attempts = s.failedAttempts,
                 !.lockout_until = IF s.lockoutUntil # NoVal THEN s.lockoutUntil ELSE Empty]

clearLockoutState(m, s) ==
  IF ~s.db THEN m
  ELSE [m EXCEPT !.failed_attempts = 0, !.lockout_until = Empty]

\* variant: the window still holds at the deadline itself
lockoutActive_inclusive(s, t) == s.lockoutUntil # NoVal /\ t <= s.lockoutUntil

\* unlock's two tests of the loaded lockout deadline
lockoutActive(s, t) == s.lockoutUntil # NoVal /\ t < s.lockoutUntil
lockoutExpired(s, t) == s.lockoutUntil # NoVal /\ t >= s.lockoutUntil

\* variant: the timer is left armed
lock_armed(s) ==
  [s EXCEPT !.cryptoManager = NoKey, !.db = FALSE,
            !.auditLogger = FALSE, !.vaultState = "locked"]

lock(s) ==
  [clearAutoLockTimer(s) EXCEPT !.cryptoManager = NoKey, !.db = FALSE,
                                !.auditLogger = FALSE, !.vaultState = "locked"]

\* variant: an existing vault is not checked for
initialize_unguarded(w, t, h, password, force, timeout) ==
  LET salt == generateSalt(w)
      cm == deriveMasterKey(password, salt)
      tm == IF timeout # NoVal THEN timeout ELSE DEFAULT_AUTO_LOCK_TIMEOUT
      m1 == [w.meta EXCEPT !.salt = salt, !.version = SCHEMA_VERSION,
                           !.created_at = t, !.auto_lock_timeout = tm,
                           !.sentinel = encrypt(cm, PASSWORD_VERIFICATION_VALUE, generateIV(w))]
      s1 == [w.hs[h] EXCEPT !.db = TRUE, !.cryptoManager = cm, !.auditLogger = TRUE,
                            !.vaultState = "unlocked", !.autoLockTimeout = tm]
  IN Derived(Returned([w EXCEPT !.exists = TRUE, !.meta = m1,
                                !.hs[h] = startAutoLockTimer(s1, t)], ""), 1)

initialize(w, t, h, password, force, timeout) ==
  IF isInitialized(w) /\ ~force THEN Threw(w, "VaultAlreadyInitialized")
  ELSE
    LET salt == generateSalt(w)
        cm == deriveMasterKey(password, salt)
        tm == IF timeout # NoVal THEN timeout ELSE DEFAULT_AUTO_LOCK_TIMEOUT
        m1 == [w.meta EXCEPT !.salt = salt, !.version = SCHEMA_VERSION,
                             !.created_at = t, !.auto_lock_timeout = tm,
                             !.sentinel = encrypt(cm, PASSWORD_VERIFICATION_VALUE, generateIV(w))]
        s1 == [w.hs[h] EXCEPT !.db = TRUE, !.cryptoManager = cm, !.auditLogger = TRUE,
                              !.vaultState = "unlocked", !.autoLockTimeout = tm]
    IN Derived(Returned([w EXCEPT !.exists = TRUE, !.meta = m1,
                                  !.hs[h] = startAutoLockTimer(s1, t)], ""), 1)

\* the branch of unlock taken once the lockout window is known to be over
unlockVerify(w, t, h, s2, m2, password, timeout) ==
  IF m2.salt = NoVal
  THEN Threw([w EXCEPT !.meta = m2, !.hs[h] = s2], "VaultNotInitialized")
  ELSE
    LET testCrypto == deriveMasterKey(password, m2.salt) IN
    IF ~verifyPassword(testCrypto, PASSWORD_VERIFICATION_VALUE, m2.sentinel)
    THEN
      LET s3 == [s2 EXCEPT !.failedAttempts = @ + 1] IN
      IF s3.failedAttempts >= MAX_FAILED_ATTEMPTS
      THEN
        LET s4 == [s3 EXCEPT !.lockoutUntil = t + LOCKOUT_DURATION_MIN,
                             !.vaultState = "locked_out"]
        IN ThrewN([w EXCEPT !.meta = persistLockoutState(m2, s4),
                            !.hs[h] = [s4 EXCEPT !.db = FALSE]],
                  "LockedOut", LOCKOUT_DURATION_MIN)
      ELSE ThrewN([w EXCEPT !.meta = persistLockoutState(m2, s3),
                            !.hs[h] = [s3 EXCEPT !.db = FALSE]],
                  "WrongPassword", MAX_FAILED_ATTEMPTS - s3.failedAttempts)
    ELSE
      LET m3 == clearLockoutState(m2, s2)
          tm == IF timeout # NoVal THEN timeout
                ELSE IF m3.auto_lock_timeout # NoVal THEN m3.auto_lock_timeout
                ELSE DEFAULT_AUTO_LOCK_TIMEOUT
          s3 == [s2 EXCEPT !.failedAttempts = 0, !.lockoutUntil = NoVal,
                           !.cryptoManager = testCrypto, !.auditLogger = TRUE,
                           !.vaultState = "unlocked", !.autoLockTimeout = tm]
      IN Returned([w EXCEPT !.meta = m3, !.hs[h] = startAutoLockTimer(s3, t)], "true")

unlock(w, t, h, password, timeout) ==
  IF ~isInitialized(w) THEN Threw(w, "VaultNotInitialized")
  ELSE
    LET s1 == loadLockoutState([w.hs[h] EXCEPT !.db = TRUE], w.meta) IN
    IF lockoutActive(s1, t)
    THEN ThrewN(SetH(w, h, [s1 EXCEPT !.db = FALSE]), "LockedOut", s1.lockoutUntil - t)
    ELSE
      LET expired == lockoutExpired(s1, t)
          s2 == IF expired THEN [s1 EXCEPT !.failedAttempts = 0, !.lockoutUntil = NoVal]
                ELSE s1
          m2 == IF expired THEN clearLockoutState(w.meta, s1) ELSE w.meta
      IN Derived(unlockVerify(w, t, h, s2, m2, password, timeout),
                 IF m2.salt = NoVal THEN 0 ELSE 1)

\* ------------------------------------------------------------ secrets
NoRow == [id |-> 0, key |-> "", environment |-> "", value |-> NoCipher,
          created_at |-> NoVal, updated_at |-> NoVal, last_used_at |-> NoVal,
          description |-> {}, tags |-> {}, expires_at |-> NoVal]

Null == "<null>"

SeqToSet(q) == {q[i] : i \in 1..Len(q)}

\* rows of q that satisfy Keep, in the order of q
RECURSIVE SelectRows(_, _)
SelectRows(q, keep) ==
  IF q = <<>> THEN <<>>
  ELSE IF Head(q) \in keep THEN <<Head(q)>> \o SelectRows(Tail(q), keep)
  ELSE SelectRows(Tail(q), keep)

\* string order of the environment names and of the keys (ORDER BY)
EnvRank(e) == CASE e = "all" -> 1 [] e = "dev" -> 2 [] e = "prod" -> 3 [] OTHER -> 4
KeyRank(k) == CASE k = "K1" -> 1 [] k = "K2" -> 2 [] k = "LONG" -> 3 [] OTHER -> 4
RowBefore(a, b) ==
  \/ KeyRank(a.key) < KeyRank(b.key)
  \/ KeyRank(a.key) = KeyRank(b.key) /\ EnvRank(a.environment) < EnvRank(b.environment)

\* ORDER BY key, environment of a set of rows
RECURSIVE OrderRows(_)
OrderRows(S) ==
  IF S = {} THEN <<>>
  ELSE LET first == CHOOSE r \in S : \A o \in S \ {r} : RowBefore(r, o)
       IN <<first>> \o OrderRows(S \ {first})

\* SELECT * FROM secrets WHERE key = ? AND environment = ?
getSecretRaw(w, key, environment) ==
  LET hit == {r \in SeqToSet(w.secrets) : r.key = key /\ r.environment = environment}
  IN IF hit = {} THEN NoRow ELSE CHOOSE r \in hit : TRUE

\* UPDATE secrets SET ... WHERE id = ?  (f maps the old row to the new one)
UpdateById(rows, ids, f(_)) ==
  [i \in 1..Len(rows) |-> IF rows[i].id \in ids THEN f(rows[i]) ELSE rows[i]]

\* DELETE FROM secrets WHERE ...
DeleteRows(rows, gone) == SelectRows(rows, SeqToSet(rows) \ gone)

\* AuditLogger.log
log(w, t, action, secretKey, environment) ==
  [w EXCEPT !.audit = Append(@, [timestamp |-> t, action |-> action,
                                 secret_key |-> secretKey, environment |-> environment])]

\* variant: the guard on the key is missing
ensureUnlocked_open(w, h) == IF ~w.hs[h].db THEN "TypeError" ELSE ""

\* ensureUnlocked, then the first use of this.db: "" when the call may go on
ensureUnlocked(w, h) ==
  IF isLocked(w.hs[h]) THEN "VaultLocked"
  ELSE IF ~w.hs[h].db THEN "TypeError"
  ELSE ""

\* the world after ensureUnlocked has run
Touched(w, t, h) ==
  IF isLocked(w.hs[h]) THEN w ELSE SetH(w, h, touchActivity(w.hs[h], t))

\* what addSecret and updateSecret are given besides the value: a description
\* and tags, each a set that is empty when the option is undefined; a column
\* that is NULL is the empty set too
NoOpts == [description |-> {}, tags |-> {}]

\* the column tags holds JSON.stringify(tags); rowToSecret parses it back
stringify(tags) == {[json |-> x] : x \in tags}
rowToSecret(row) == [row EXCEPT !.tags = {x.json : x \in @}]

\* Buffer.byteLength(value, 'utf8'); Big stands for a value of 64 KiB + 1 bytes
Big == "big"
byteLength(value) == IF value = Big THEN MAX_SECRET_VALUE_SIZE + 1 ELSE Len(value)

\* the characters of the keys that callers pass; LONG is 256 letters
Spell(key) ==
  CASE key = "K1" -> <<"K", "1">>
    [] key = "K2" -> <<"K", "2">>
    [] key = "k1" -> <<"k", "1">>
    [] key = "LONG" -> [i \in 1..256 |-> "A"]
    [] OTHER -> <<>>

\* validateSecretKey: TRUE when it returns, FALSE when it throws InvalidKey
validateSecretKey(key) ==
  LET c == Spell(key)
      upper == {"A", "B", "C", "D", "E", "F", "G", "H", "I", "J", "K", "L", "M",
                "N", "O", "P", "Q", "R", "S", "T", "U", "V", "W", "X", "Y", "Z"}
      digit == {"0", "1", "2", "3", "4", "5", "6", "7", "8", "9"}
  IN /\ c # <<>>
     /\ c[1] \in upper
     /\ \A i \in 1..Len(c) : c[i] \in upper \cup digit \cup {"_"}
     /\ Len(c) <= 255

\* the table constraint UNIQUE(key, environment): may this row be inserted
uniqueOk(rows, row) ==
  ~\E r \in SeqToSet(rows) : r.key = row.key /\ r.environment = row.environment

\* INSERT INTO secrets, then the audit entry
insertSecret(w, t, row) ==
  IF ~uniqueOk(w.secrets, row) THEN Threw(w, "SQLiteError")
  ELSE Returned(log([w EXCEPT !.secrets = Append(@, row)], t, "write",
                    row.key, row.environment), "")

\* variant: the insert is attempted without looking for the row first
addSecret_noLookup(w, t, h, key, value, environment, options) ==
  LET e == ensureUnlocked(w, h)
      w1 == Touched(w, t, h)
      cm == w.hs[h].cryptoManager
  IN IF e # "" THEN Threw(w1, e)
     ELSE IF byteLength(value) > MAX_SECRET_VALUE_SIZE
     THEN Threw(w1, "SecretValueTooLarge")
     ELSE insertSecret(w1, t,
            [id |-> randomUUID(w1), key |-> key, environment |-> environment,
             value |-> encrypt(cm, value, generateIV(w1)),
             created_at |-> t, updated_at |-> t, last_used_at |-> NoVal,
             description |-> options.description, tags |-> stringify(options.tags),
             expires_at |-> NoVal])

addSecret(w, t, h, key, value, environment, options) ==
  LET e == ensureUnlocked(w, h)
      w1 == Touched(w, t, h)
      cm == w.hs[h].cryptoManager
  IN IF e # "" THEN Threw(w1, e)
     ELSE IF byteLength(value) > MAX_SECRET_VALUE_SIZE
     THEN Threw(w1, "SecretValueTooLarge")
     ELSE IF getSecretRaw(w1, key, environment) # NoRow
     THEN Threw(w1, "SecretAlreadyExists")
     ELSE insertSecret(w1, t,
            [id |-> randomUUID(w1), key |-> key, environment |-> environment,
             value |-> encrypt(cm, value, generateIV(w1)),
             created_at |-> t, updated_at |-> t, last_used_at |-> NoVal,
             description |-> options.description, tags |-> stringify(options.tags),
             expires_at |-> NoVal])

\* the row getSecret and getSecretWithDetails read: (key, environment), else (key, 'all')
lookup(w, key, environment) ==
  LET secret == getSecretRaw(w, key, environment)
  IN IF secret = NoRow /\ environment # "all" THEN getSecretRaw(w, key, "all") ELSE secret

MarkUsed(t, r) == [r EXCEPT !.last_used_at = t]

\* getSecret logs the requested environment, getSecretWithDetails the row's
readSecret(w, t, h, key, environment, logRowEnv) ==
  LET e == ensureUnlocked(w, h)
      w1 == Touched(w, t, h)
      cm == w.hs[h].cryptoManager
      secret == lookup(w1, key, environment)
  IN IF e # "" THEN Threw(w1, e)
     ELSE IF secret = NoRow THEN Returned(w1, Null)
     ELSE IF ~DecryptOk(cm, secret.value) THEN Threw(w1, "DecryptionFailed")
     ELSE
       LET w2 == [w1 EXCEPT !.secrets =
                    UpdateById(@, {secret.id}, LAMBDA r : MarkUsed(t, r))]
       IN Returned(log(w2, t, "read", key,
                       IF logRowEnv THEN secret.environment ELSE environment),
                   decrypt(cm, secret.value))

getSecret(w, t, h, key, environment) == readSecret(w, t, h, key, environment, FALSE)

getSecretWithDetails(w, t, h, key, environment) == readSecret(w, t, h, key, environment, TRUE)

\* the rows listSecrets returns; environment NoEnv is the call without a filter
NoEnv == ""
\* variant: the rows of environment 'all' are left out of a filtered list
listedRows_exact(w, environment) ==
  OrderRows({r \in SeqToSet(w.secrets) :
               environment = NoEnv \/ r.environment = environment})

listedRows(w, environment) ==
  OrderRows({r \in SeqToSet(w.secrets) :
               environment = NoEnv \/ r.environment = environment \/ r.environment = "all"})

listSecrets(w, t, h, environment) ==
  LET e == ensureUnlocked(w, h)
      w1 == Touched(w, t, h)
      rows == listedRows(w1, environment)
  IN IF e # "" THEN Threw(w1, e)
     ELSE [Out(w1, "", "", Len(rows)) EXCEPT
             !.rows = [i \in 1..Len(rows) |-> rowToSecret(rows[i])]]

\* variant: the description is written whether it is given or not
SetValue_always(t, c, options, r) ==
  [r EXCEPT !.value = c, !.updated_at = t,
            !.description = options.description,
            !.tags = IF options.tags # {} THEN stringify(options.tags) ELSE @]

SetValue(t, c, options, r) ==
  [r EXCEPT !.value = c, !.updated_at = t,
            !.description = IF options.description # {} THEN options.description ELSE @,
            !.tags = IF options.tags # {} THEN stringify(options.tags) ELSE @]

updateSecret(w, t, h, key, value, environment, options) ==
  LET e == ensureUnlocked(w, h)
      w1 == Touched(w, t, h)
      cm == w.hs[h].cryptoManager
      existing == getSecretRaw(w1, key, environment)
  IN IF e # "" THEN Threw(w1, e)
     ELSE IF byteLength(value) > MAX_SECRET_VALUE_SIZE
     THEN Threw(w1, "SecretValueTooLarge")
     ELSE IF existing = NoRow THEN Threw(w1, "SecretNotFound")
     ELSE
       LET c == encrypt(cm, value, generateIV(w1))
           w2 == [w1 EXCEPT !.secrets =
                    UpdateById(@, {existing.id}, LAMBDA r : SetValue(t, c, options, r))]
       IN Returned(log(w2, t, "write", key, environment), "")

\* variant: the row of environment 'all' is deleted when (key, environment) is absent
deleteSecret_fallback(w, t, h, key, environment) ==
  LET e == ensureUnlocked(w, h)
      w1 == Touched(w, t, h)
      existing == lookup(w1, key, environment)
  IN IF e # "" THEN Threw(w1, e)
     ELSE IF existing = NoRow THEN Threw(w1, "SecretNotFound")
     ELSE
       LET w2 == [w1 EXCEPT !.secrets = DeleteRows(@, {existing})]
       IN Returned(log(w2, t, "delete", key, environment), "true")

deleteSecret(w, t, h, key, environment) ==
  LET e == ensureUnlocked(w, h)
      w1 == Touched(w, t, h)
      existing == getSecretRaw(w1, key, environment)
  IN IF e # "" THEN Threw(w1, e)
     ELSE IF existing = NoRow THEN Threw(w1, "SecretNotFound")
     ELSE
       LET w2 == [w1 EXCEPT !.secrets = DeleteRows(@, {existing})]
       IN Returned(log(w2, t, "delete", key, environment), "true")

deleteSecretAllEnvs(w, t, h, key) ==
  LET e == ensureUnlocked(w, h)
      w1 == Touched(w, t, h)
      gone == {r \in SeqToSet(w1.secrets) : r.key = key}
      w2 == [w1 EXCEPT !.secrets = DeleteRows(@, gone)]
  IN IF e # "" THEN Threw(w1, e)
     ELSE Out(IF gone # {} THEN log(w2, t, "delete", key, "all") ELSE w2,
              "", "", Cardinality(gone))

\* one 'rotate' audit row per rotated row, in the order of the list
RECURSIVE logRotations(_, _, _, _)
logRotations(w, t, key, rows) ==
  IF rows = <<>> THEN w
  ELSE logRotations(log(w, t, "rotate", key, Head(rows).environment), t, key, Tail(rows))

\* variant: the excluded environments are rotated too
rotateSecret_noExclude(w, t, h, key, newValue, excludeEnvs) ==
  LET e == ensureUnlocked(w, h)
      w1 == Touched(w, t, h)
      cm == w.hs[h].cryptoManager
      all == listedRows(w1, NoEnv)
      found == SelectRows(all, {r \in SeqToSet(all) : r.key = key})
  IN IF e # "" THEN Threw(w1, e)
     ELSE IF found = <<>> THEN Threw(w1, "SecretNotFound")
     ELSE
       LET encryptedValue == encrypt(cm, newValue, generateIV(w1))
           w2 == [w1 EXCEPT !.secrets =
                    UpdateById(@, {r.id : r \in SeqToSet(found)},
                               LAMBDA r : SetValue(t, encryptedValue, NoOpts, r))]
       IN Out(logRotations(w2, t, key, found), "", "", Len(found))

rotateSecret(w, t, h, key, newValue, excludeEnvs) ==
  LET e == ensureUnlocked(w, h)
      w1 == Touched(w, t, h)
      cm == w.hs[h].cryptoManager
      all == listedRows(w1, NoEnv)
      found == SelectRows(all, {r \in SeqToSet(all) :
                                  r.key = key /\ r.environment \notin excludeEnvs})
  IN IF e # "" THEN Threw(w1, e)
     ELSE IF found = <<>> THEN Threw(w1, "SecretNotFound")
     ELSE
       LET encryptedValue == encrypt(cm, newValue, generateIV(w1))
           w2 == [w1 EXCEPT !.secrets =
                    UpdateById(@, {r.id : r \in SeqToSet(found)},
                               LAMBDA r : SetValue(t, encryptedValue, NoOpts, r))]
       IN Out(logRotations(w2, t, key, found), "", "", Len(found))

\* key LIKE %query% for the queries the model draws: "K" is in every key
likeMatch(key, query) == query = "K" \/ key = query

searchedRows(w, query) == OrderRows({r \in SeqToSet(w.secrets) : likeMatch(r.key, query)})

searchSecrets(w, t, h, query) ==
  LET e == ensureUnlocked(w, h)
      w1 == Touched(w, t, h)
  IN IF e # "" THEN Threw(w1, e) ELSE Out(w1, "", "", Len(searchedRows(w1, query)))

\* the keyMap of getSecretsForSync: the listed rows are visited in order, and
\* a row replaces the one held for its key when that one is the 'all' row
RECURSIVE keyMap(_, _)
keyMap(rows, km) ==
  IF rows = <<>> THEN km
  ELSE
    LET secret == Head(rows)
        set == \/ secret.key \notin DOMAIN km
               \/ secret.environment # "all" /\ km[secret.key].environment = "all"
    IN keyMap(Tail(rows),
              IF set THEN [k \in DOMAIN km \cup {secret.key} |->
                             IF k = secret.key THEN secret ELSE km[k]]
              ELSE km)

syncRows(w, environment) ==
  LET km == keyMap(listedRows(w, environment), NoMap)
  IN {km[k] : k \in DOMAIN km}

\* the Record<string, string> the call returns is out.map
getSecretsForSync(w, t, h, environment) ==
  LET e == ensureUnlocked(w, h)
      w1 == Touched(w, t, h)
      cm == w.hs[h].cryptoManager
      km == keyMap(listedRows(w1, environment), NoMap)
  IN IF e # "" THEN Threw(w1, e)
     ELSE IF \E k \in DOMAIN km : ~DecryptOk(cm, km[k].value)
       THEN Threw(w1, "DecryptionFailed")
     ELSE Mapped(Out(w1, "", "", Cardinality(DOMAIN km)),
                 [k \in DOMAIN km |-> decrypt(cm, km[k].value)])

\* variant: the loop visits no row
reEncrypt_skipped(w, i, oldCrypto, newCrypto) == [w |-> w, failed |-> FALSE]

\* the loop of changeMasterPassword from row i on: the rows left when it ends,
\* and whether a row failed to decrypt under the old key
RECURSIVE reEncrypt(_, _, _, _)
reEncrypt(w, i, oldCrypto, newCrypto) ==
  IF i > Len(w.secrets) THEN [w |-> w, failed |-> FALSE]
  ELSE IF ~DecryptOk(oldCrypto, w.secrets[i].value) THEN [w |-> w, failed |-> TRUE]
  ELSE
    LET reEncrypted == encrypt(newCrypto, decrypt(oldCrypto, w.secrets[i].value),
                               generateIV(w))
    IN reEncrypt([w EXCEPT !.secrets[i].value = reEncrypted], i + 1, oldCrypto, newCrypto)

changeMasterPassword(w, t, h, oldPassword, newPassword) ==
  IF ~isInitialized(w) THEN Threw(w, "VaultNotInitialized")
  ELSE IF w.meta.salt = NoVal THEN Threw(w, "VaultNotInitialized")
  ELSE
    LET oldCrypto == deriveMasterKey(oldPassword, w.meta.salt) IN
    IF ~verifyPassword(oldCrypto, PASSWORD_VERIFICATION_VALUE, w.meta.sentinel)
    THEN Derived(ThrewN(w, "WrongPassword", MAX_FAILED_ATTEMPTS), 1)
    ELSE
      LET newCrypto == deriveMasterKey(newPassword, generateSalt(w))
          loop == reEncrypt(w, 1, oldCrypto, newCrypto)
          w2 == [loop.w EXCEPT
                   !.meta.salt = newCrypto.salt,
                   !.meta.sentinel = encrypt(newCrypto, PASSWORD_VERIFICATION_VALUE,
                                             generateIV(loop.w))]
      IN IF loop.failed THEN Derived(Threw(loop.w, "DecryptionFailed"), 2)
         ELSE IF isLocked(w.hs[h]) THEN Derived(Returned(w2, ""), 2)
         ELSE
           LET again == unlock(SetH(w2, h, lock(w2.hs[h])), t, h, newPassword, NoVal)
           IN Derived(Out(again.w, again.err, "", again.n), 2 + again.kdf)

\* the master-key buffers a call stops referencing when it returns, each with
\* whether clearMasterKey (fill(0)) ran on it first
Buffer(key, zeroed) == [key |-> key, zeroed |-> zeroed]

\* lock: clearMasterKey, then this.cryptoManager = null
lockReleases(s) ==
  IF s.cryptoManager # NoKey THEN {Buffer(s.cryptoManager, TRUE)} ELSE {}

\* unlock that returns: this.cryptoManager = testCrypto over the installed key
unlockReleases(w, t, h, password) ==
  IF unlock(w, t, h, password, NoVal).err = "" /\ w.hs[h].cryptoManager # NoKey
  THEN {Buffer(w.hs[h].cryptoManager, FALSE)}
  ELSE {}

\* changeMasterPassword that returns: oldCrypto.clearMasterKey(); newCrypto
\* goes out of scope; lock() and unlock(newPassword) on an unlocked handle
changeMasterPasswordReleases(w, t, h, oldPassword, newPassword) ==
  LET out == changeMasterPassword(w, t, h, oldPassword, newPassword)
      oldCrypto == deriveMasterKey(oldPassword, w.meta.salt)
      newCrypto == deriveMasterKey(newPassword, generateSalt(w))
  IN IF out.err # "" THEN {}
     ELSE {Buffer(oldCrypto, TRUE), Buffer(newCrypto, FALSE)}
          \cup (IF isLocked(w.hs[h]) THEN {}
                ELSE lockReleases(w.hs[h])
                     \cup unlockReleases(SetH(out.w, h, lock(w.hs[h])), t, h, newPassword))

\* the import command, for one parsed secret: addSecret, and updateSecret
\* when that throws SecretAlreadyExists
importSecret(w, t, h, key, value, environment, options) ==
  LET added == addSecret(w, t, h, key, value, environment, options)
  IN IF added.err = "SecretAlreadyExists"
     THEN updateSecret(added.w, t, h, key, value, environment, options)
     ELSE added

\* variant: any keepLast rows survive
newest_any(rows, keepLast) ==
  {K \in SUBSET (1..Len(rows)) : Cardinality(K) = Min({keepLast, Len(rows)})}

\* SELECT id FROM audit_logs ORDER BY timestamp DESC LIMIT keepLast: the sets
\* of rows it may yield (rows of one timestamp come in no defined order)
newest(rows, keepLast) ==
  {K \in SUBSET (1..Len(rows)) :
     /\ Cardinality(K) = Min({keepLast, Len(rows)})
     /\ \A i \in K, j \in (1..Len(rows)) \ K : rows[i].timestamp >= rows[j].timestamp}

\* the rows at the positions K, in their order
RECURSIVE rowsAt(_, _, _)
rowsAt(rows, K, i) ==
  IF i > Len(rows) THEN <<>>
  ELSE (IF i \in K THEN <<rows[i]>> ELSE <<>>) \o rowsAt(rows, K, i + 1)

\* AuditLogger.pruneLogs: DELETE ... WHERE id NOT IN (the rows K the
\* subquery yielded); returns result.changes
pruneLogs(w, keepLast, K) ==
  Out([w EXCEPT !.audit = rowsAt(@, K, 1)], "", "", Len(w.audit) - Cardinality(K))

\* ------------------------------------------------------ SessionManager
\* the master keys handed to saveSession
MasterKeys == {"mk1", "mk2"}

\* AES-256-GCM under the session key sk: base64(iv || tag || data)
NoSeal == [sk |-> NoVal, iv |-> 0, pt |-> ""]
seal(sk, iv, masterKey) == [sk |-> sk, iv |-> iv, pt |-> masterKey]

\* the session file: absent, or its text; json says whether JSON.parse
\* accepts the text, and a field that is NoVal (NoSeal) is missing from it
NoFile == [there |-> FALSE, json |-> FALSE, encryptedMasterKey |-> NoSeal,
           sessionKey |-> NoVal, expiresAt |-> NoVal, createdAt |-> NoVal]

\* what a SessionManager method leaves and returns
Left(f, ret) == [f |-> f, ret |-> ret]

\* readSessionData: TRUE when it returns the record, FALSE when null
readSessionData(f) ==
  /\ f.there
  /\ f.json
  /\ f.encryptedMasterKey # NoSeal
  /\ f.sessionKey # NoVal
  /\ f.expiresAt # NoVal

deleteSession(f) == NoFile

saveSession(f, t, masterKey, timeoutMinutes) ==
  LET sessionKey == Fresh({f.sessionKey, f.encryptedMasterKey.sk})
      iv == Fresh({f.encryptedMasterKey.iv})
  IN Left([there |-> TRUE, json |-> TRUE,
           encryptedMasterKey |-> seal(sessionKey, iv, masterKey),
           sessionKey |-> sessionKey,
           expiresAt |-> t + timeoutMinutes,
           createdAt |-> t], "")

hasValidSession(f, t) ==
  IF ~f.there THEN Left(f, "false")
  ELSE IF ~readSessionData(f) THEN Left(f, "false")
  ELSE IF t > f.expiresAt THEN Left(deleteSession(f), "false")
  ELSE Left(f, "true")

\* variant: a record that is past its time is still decrypted
loadSession_late(f, t) ==
  IF ~readSessionData(f) THEN Left(f, Null)
  ELSE IF f.encryptedMasterKey.sk # f.sessionKey THEN Left(deleteSession(f), Null)
  ELSE Left(f, f.encryptedMasterKey.pt)

loadSession(f, t) ==
  LET valid == hasValidSession(f, t)
      g == valid.f
  IN IF valid.ret # "true" THEN Left(g, Null)
     ELSE IF ~readSessionData(g) THEN Left(g, Null)
     ELSE IF t > g.expiresAt THEN Left(deleteSession(g), Null)
     ELSE IF g.encryptedMasterKey.sk # g.sessionKey THEN Left(deleteSession(g), Null)
     ELSE Left(g, g.encryptedMasterKey.pt)

extendSession(f, t, timeoutMinutes) ==
  IF ~readSessionData(f) THEN Left(f, "false")
  ELSE IF t > f.expiresAt THEN Left(deleteSession(f), "false")
  ELSE Left([f EXCEPT !.expiresAt = t + timeoutMinutes], "true")

\* ------------------------------------------- the export and import commands
\* the export file: absent, or the header, the salt and the nonce around the
\* JSON text of exportData under pbkdf2Sync(exportPassword, salt)
NoExport == [there |-> FALSE, header |-> "", salt |-> 0, iv |-> 0,
             key |-> NoKey, data |-> <<>>]

\* what a command leaves: the engine's outcome and the export file
Done(out, file) == [out |-> out, file |-> file]

\* the entry the export loop pushes for a listed secret
exported(secret, decryptedValue) ==
  [key |-> secret.key, value |-> decryptedValue, environment |-> secret.environment,
   description |-> secret.description, tags |-> secret.tags]

\* the loop of the export command over the selected rows (all the listed
\* ones): getSecret for each, an entry for each value that is not falsy
RECURSIVE exportLoop(_, _, _, _, _)
exportLoop(w, t, h, rows, exportData) ==
  IF rows = <<>> THEN Out(w, "", "", Len(exportData)) @@ [data |-> exportData]
  ELSE
    LET secret == rowToSecret(Head(rows))
        got == getSecret(w, t, h, secret.key, secret.environment)
    IN IF got.err # "" THEN got @@ [data |-> exportData]
       ELSE exportLoop(got.w, t, h, Tail(rows),
              IF got.ret # Null /\ got.ret # ""
                THEN Append(exportData, exported(secret, got.ret))
                ELSE exportData)

\* secrets export [-e environment] --password exportPassword, the master
\* password typed when the vault is locked, every listed secret selected
exportCommand(w, file, t, h, password, environment, exportPassword, salt, iv) ==
  IF ~isInitialized(w) THEN Done(Threw(w, "exit"), file)
  ELSE
    LET opened == IF isLocked(w.hs[h]) THEN unlock(w, t, h, password, NoVal)
                  ELSE Returned(w, "")
        listed == listSecrets(opened.w, t, h, environment)
        selected == listedRows(listed.w, environment)
        looped == exportLoop(listed.w, t, h, selected, <<>>)
    IN IF opened.err # "" THEN Done(opened, file)
       ELSE IF listed.err # "" THEN Done(listed, file)
       ELSE IF selected = <<>> THEN Done(Out(listed.w, "", "", 0), file)
       ELSE IF looped.err # "" THEN Done(Threw(looped.w, looped.err), file)
       ELSE Done(Out(looped.w, "", "", looped.n),
                 [there |-> TRUE, header |-> "SECRETS_EXPORT_V1", salt |-> salt,
                  iv |-> iv, key |-> deriveMasterKey(exportPassword, salt),
                  data |-> looped.data])

\* the loop of the import command: addSecret, or updateSecret when the row
\* exists; any other error ends the command
RECURSIVE importLoop(_, _, _, _, _)
importLoop(w, t, h, entries, n) ==
  IF entries = <<>> THEN Out(w, "", "", n)
  ELSE
    LET s == Head(entries)
        done == importSecret(w, t, h, s.key, s.value, s.environment,
                             [description |-> s.description, tags |-> s.tags])
    IN IF done.err # "" THEN ThrewN(done.w, done.err, n)
       ELSE importLoop(done.w, t, h, Tail(entries), n + 1)

\* secrets import file --password importPassword, the import confirmed
importCommand(w, file, t, h, password, importPassword) ==
  LET opened == IF isLocked(w.hs[h]) THEN unlock(w, t, h, password, NoVal)
                ELSE Returned(w, "")
  IN IF ~file.there \/ ~isInitialized(w) THEN Done(Threw(w, "exit"), file)
     ELSE IF opened.err # "" THEN Done(opened, file)
     ELSE IF file.header # "SECRETS_EXPORT_V1" THEN Done(Threw(opened.w, "exit"), file)
     ELSE IF deriveMasterKey(importPassword, file.salt) # file.key
       THEN Done(Threw(opened.w, "exit"), file)
     ELSE Done(importLoop(opened.w, t, h, file.data, 0), file)

\* ------------------------------------------------------- BackupManager
\* a file of bytes: absent, or its content
NoBytes == [there |-> FALSE, data |-> <<>>]
File(data) == [there |-> TRUE, data |-> data]

\* the decimal digits of n, in ASCII
RECURSIVE Digits(_)
Digits(n) == IF n < 10 THEN <<48 + n>> ELSE Digits(n \div 10) \o <<48 + (n % 10)>>

\* Buffer.from(JSON.stringify(metadata)): created_at (in milliseconds) is the
\* only part that varies, the text around it is shortened to the braces
metadataBuffer(t) == <<123>> \o Digits(t * 60000) \o <<125>>

writeUInt32BE(n) ==
  <<(n \div 16777216) % 256, (n \div 65536) % 256, (n \div 256) % 256, n % 256>>
readUInt32BE(buf, offset) ==
  buf[offset + 1] * 16777216 + buf[offset + 2] * 65536
    + buf[offset + 3] * 256 + buf[offset + 4]
subarray(buf, start, end) == SubSeq(buf, start + 1, Min({end, Len(buf)}))

\* AES-256-GCM under pbkdf2Sync(password, salt): byte i of the key stream,
\* the data under the key stream, and the tag over key, nonce and ciphertext
pad(password, salt, iv, i) ==
  ((IF password = "p1" THEN 16 ELSE 32) + salt[1] + iv[1] + i) % 256
cipherUpdate(password, salt, iv, data) ==
  [i \in 1..Len(data) |-> (data[i] + pad(password, salt, iv, i)) % 256]
decipherUpdate(password, salt, iv, encrypted) ==
  [i \in 1..Len(encrypted) |-> (encrypted[i] + 256 - pad(password, salt, iv, i)) % 256]
getAuthTag(password, salt, iv, encrypted) ==
  LET sum[i \in 0..Len(encrypted)] == IF i = 0 THEN 0 ELSE sum[i - 1] + encrypted[i]
  IN [i \in 1..16 |-> (pad(password, salt, iv, 0) + sum[Len(encrypted)]) % 256]

\* what a BackupManager method leaves in the files and throws; the password
\* "" is the one not given
createBackup(fs, t, password, salt, iv) ==
  IF ~fs.vault.there THEN [fs |-> fs, err |-> "ENOENT"]
  ELSE
    LET vaultData == fs.vault.data
        metadata == metadataBuffer(t)
        metadataLengthBuffer == writeUInt32BE(Len(metadata))
        encrypted == cipherUpdate(password, salt, iv, vaultData)
        finalData ==
          IF password # ""
            THEN <<1>> \o salt \o iv \o getAuthTag(password, salt, iv, encrypted)
                   \o metadataLengthBuffer \o metadata \o encrypted
            ELSE <<0>> \o metadataLengthBuffer \o metadata \o vaultData
    IN [fs |-> [fs EXCEPT !.backup = File(finalData)], err |-> ""]

\* variant: the metadata is not skipped
restoreBackup_noSkip(fs, password) ==
  LET backupData == fs.backup.data
      written == [fs EXCEPT !.preRestore = IF fs.vault.there THEN fs.vault ELSE @,
                            !.vault = File(subarray(backupData, 5, Len(backupData)))]
  IN IF ~fs.backup.there THEN [fs |-> fs, err |-> "BackupNotFound"]
     ELSE [fs |-> written, err |-> ""]

restoreBackup(fs, password) ==
  IF ~fs.backup.there THEN [fs |-> fs, err |-> "BackupNotFound"]
  ELSE
    LET backupData == fs.backup.data
        isEncrypted == backupData[1] = 1
        salt == subarray(backupData, 1, 17)
        iv == subarray(backupData, 17, 29)
        authTag == subarray(backupData, 29, 45)
        offset == IF isEncrypted THEN 45 ELSE 1
        metadataLength == readUInt32BE(backupData, offset)
        rest == subarray(backupData, offset + 4 + metadataLength, Len(backupData))
        vaultData == IF isEncrypted THEN decipherUpdate(password, salt, iv, rest) ELSE rest
        written == [fs EXCEPT !.preRestore = IF fs.vault.there THEN fs.vault ELSE @,
                              !.vault = File(vaultData)]
    IN IF isEncrypted /\ password = "" THEN [fs |-> fs, err |-> "PasswordRequired"]
       ELSE IF isEncrypted /\ getAuthTag(password, salt, iv, rest) # authTag
         THEN [fs |-> fs, err |-> "DecryptFailed"]
       ELSE [fs |-> written, err |-> ""]

\* ------------------------------------------------------------ actions
Call(op, h, pw, key, env, val, out) ==
  [op |-> op, h |-> h, pw |-> pw, key |-> key, env |-> env, val |-> val,
   err |-> out.err, ret |-> out.ret, n |-> out.n, kdf |-> out.kdf,
   map |-> out.map, rows |-> out.rows, force |-> FALSE, opts |-> NoOpts,
   at |-> NoVal]

Apply(out) ==
  /\ exists' = out.w.exists
  /\ meta' = out.w.meta
  /\ secrets' = out.w.secrets
  /\ audit' = out.w.audit
  /\ hs' = out.w.hs
  /\ UNCHANGED files

\* does the vault's sentinel verify under this password
isCorrect(w, password) ==
  /\ w.exists
  /\ w.meta.salt # NoVal
  /\ verifyPassword(deriveMasterKey(password, w.meta.salt),
                    PASSWORD_VERIFICATION_VALUE, w.meta.sentinel)

\* no failed attempt is on record
isClean(w) ==
  /\ w.meta.failed_attempts \in {NoVal, 0}
  /\ w.meta.lockout_until \in {NoVal, Empty}

\* hist.master: the password of the latest initialize or changeMasterPassword
\* that returned; hist.streak: how many unlock calls with a wrong password
\* were made in a row (up to MAX_FAILED_ATTEMPTS), the first of them with no
\* failed attempt on record; hist.put[k, e]: the value the latest addSecret
\* of (k, e) that returned stored, while no call has since updated, rotated
\* or deleted that row; Gone once deleteSecret(k, e) has returned, until the
\* row is added again; "" otherwise
Gone == "<gone>"
NoPut == [ke \in Keys \X Environments |-> ""]
NoHist == [master |-> "", streak |-> 0, put |-> NoPut, saved |-> "",
           backed |-> [there |-> FALSE, data |-> <<>>, pw |-> ""],
           exported |-> [there |-> FALSE, S |-> {}, pw |-> ""]]
Reset == [hist EXCEPT !.streak = 0]
Master(out, password) ==
  [Reset EXCEPT !.master = IF out.err = "" THEN password ELSE @]

\* the rows of key that exist in an environment outside excludeEnvs
envsOf(key, excludeEnvs) ==
  {e \in Environments \ excludeEnvs : getSecretRaw(World, key, e) # NoRow}

Put(op, key, env, val, out) ==
  IF out.err # "" \/ key \notin Keys THEN Reset
  ELSE CASE op = "addSecret" -> [Reset EXCEPT !.put[<<key, env>>] = val]
         [] op = "importSecret" ->
              [Reset EXCEPT !.put[<<key, env>>] =
                 IF getSecretRaw(World, key, env) = NoRow THEN val ELSE ""]
         [] op = "updateSecret" -> [Reset EXCEPT !.put[<<key, env>>] = ""]
         [] op = "deleteSecret" -> [Reset EXCEPT !.put[<<key, env>>] = Gone]
         [] op = "rotateSecret" ->
              [Reset EXCEPT !.put = [ke \in Keys \X Environments |->
                 IF ke[1] = key /\ ke[2] \in envsOf(key, {env}) THEN "" ELSE @[ke]]]
         [] op = "deleteSecretAllEnvs" ->
              [Reset EXCEPT !.put = [ke \in Keys \X Environments |->
                 IF ke[1] = key /\ ke[2] \in envsOf(key, {}) THEN "" ELSE @[ke]]]
         [] OTHER -> Reset
Streak(password) ==
  IF ~exists \/ isCorrect(World, password) THEN Reset
  ELSE IF hist.streak = 0
  THEN [hist EXCEPT !.streak = IF isClean(World) THEN 1 ELSE 0]
  ELSE [hist EXCEPT !.streak = IF @ < MAX_FAILED_ATTEMPTS THEN @ + 1 ELSE @]

Initialize(h, password, force, timeout) ==
  LET out == initialize(World, now, h, password, force, timeout) IN
  /\ Apply(out)
  /\ last' = [Call("initialize", h, password, "", "", "", out) EXCEPT !.force = force]
  /\ hist' = Master(out, password)
  /\ UNCHANGED now

Unlock(h, password, timeout) ==
  LET out == unlock(World, now, h, password, timeout) IN
  /\ Apply(out)
  /\ last' = Call("unlock", h, password, "", "", "", out)
  /\ hist' = Streak(password)
  /\ UNCHANGED now

Lock(h) ==
  /\ hs' = [hs EXCEPT ![h] = lock(hs[h])]
  /\ last' = Call("lock", h, "", "", "", "", Returned(World, ""))
  /\ hist' = Reset
  /\ UNCHANGED <<now, exists, meta, secrets, audit, files>>

\* the setTimeout callback of startAutoLockTimer
TimerFire(h) ==
  /\ hs[h].autoLockTimer # NoVal
  /\ now >= hs[h].autoLockTimer
  /\ hs' = [hs EXCEPT ![h] = lock(hs[h])]
  /\ last' = Call("timer", h, "", "", "", "", Returned(World, ""))
  /\ UNCHANGED <<now, exists, meta, secrets, audit, hist, files>>

\* the minutes at which the model makes calls: the first two, and those from
\* the end of a lockout window that began in minute 0 on
Clock == {t \in 0..MaxTime : t <= 1 \/ t >= LOCKOUT_DURATION_MIN}

Tick ==
  /\ \E t \in Clock : t > now
  /\ now' = Min({t \in Clock : t > now})
  /\ last' = Call("tick", 0, "", "", "", "", Returned(World, ""))
  /\ UNCHANGED <<exists, meta, secrets, audit, hs, hist, files>>

\* the process exits and a new one constructs a VaultManager on the same path
Restart(h) ==
  /\ hs' = [hs EXCEPT ![h] = NewVaultManager(vaultExists(World))]
  /\ last' = Call("new", h, "", "", "", "", Returned(World, ""))
  /\ UNCHANGED <<now, exists, meta, secrets, audit, hist, files>>

ChangeMasterPassword(h, oldPassword, newPassword) ==
  LET out == changeMasterPassword(World, now, h, oldPassword, newPassword) IN
  /\ Apply(out)
  /\ last' = Call("changeMasterPassword", h, oldPassword, "", "", newPassword, out)
  /\ hist' = Master(out, newPassword)
  /\ UNCHANGED now

\* a call of the secret store; the audit table is capped at MaxAudit rows
StoreCall(op, h, key, env, val, options, out) ==
  /\ Len(out.w.audit) <= MaxAudit
  /\ Apply(out)
  /\ last' = [Call(op, h, "", key, env, val, out) EXCEPT !.opts = options]
  /\ hist' = Put(op, key, env, val, out)
  /\ UNCHANGED now

AddSecret(h, key, value, environment, options) ==
  StoreCall("addSecret", h, key, environment, value, options,
            addSecret(World, now, h, key, value, environment, options))

GetSecret(h, key, environment) ==
  StoreCall("getSecret", h, key, environment, "", NoOpts,
            getSecret(World, now, h, key, environment))

GetSecretWithDetails(h, key, environment) ==
  StoreCall("getSecretWithDetails", h, key, environment, "", NoOpts,
            getSecretWithDetails(World, now, h, key, environment))

ListSecrets(h, environment) ==
  StoreCall("listSecrets", h, "", environment, "", NoOpts,
            listSecrets(World, now, h, environment))

UpdateSecret(h, key, value, environment, options) ==
  StoreCall("updateSecret", h, key, environment, value, options,
            updateSecret(World, now, h, key, value, environment, options))

DeleteSecret(h, key, environment) ==
  StoreCall("deleteSecret", h, key, environment, "", NoOpts,
            deleteSecret(World, now, h, key, environment))

DeleteSecretAllEnvs(h, key) ==
  StoreCall("deleteSecretAllEnvs", h, key, "", "", NoOpts,
            deleteSecretAllEnvs(World, now, h, key))

\* the model excludes at most one environment (NoEnv: none)
RotateSecret(h, key, newValue, exclude) ==
  StoreCall("rotateSecret", h, key, exclude, newValue, NoOpts,
            rotateSecret(World, now, h, key, newValue, {exclude} \ {NoEnv}))

\* rotateSecret step by step: the call up to its loop, then one row of the
\* loop at a time; while it is in flight last.ret is Running, last.n the rows
\* done and last.at the Date.now() taken before the loop
Running == "<running>"

\* variant: the timer callback may run while a call is in flight
Idle_preempt == TRUE

\* the call stack is empty: only then does the event loop run a setTimeout
\* callback or the next call (no method of VaultManager awaits)
Idle == last.ret # Running

RotateBegin(h, key, newValue, exclude) ==
  LET out == rotateSecret(World, now, h, key, newValue, {exclude} \ {NoEnv})
      w1 == Touched(World, now, h)
  IN IF out.err # ""
       THEN StoreCall("rotateSecret", h, key, exclude, newValue, NoOpts, out)
       ELSE /\ Apply(Returned(w1, Running))
            /\ last' = [Call("rotateSecret", h, "", key, exclude, newValue,
                             Out(w1, "", Running, 0)) EXCEPT !.at = now]
            /\ UNCHANGED <<now, hist>>

RotateRow(h) ==
  LET all == listedRows(World, NoEnv)
      found == SelectRows(all, {r \in SeqToSet(all) :
                                  r.key = last.key /\ r.environment # last.env})
      secret == found[last.n + 1]
      encryptedValue == IF last.n = 0
                          THEN encrypt(hs[h].cryptoManager, last.val, generateIV(World))
                          ELSE found[1].value
      w2 == [World EXCEPT !.secrets =
               UpdateById(@, {secret.id},
                          LAMBDA r : SetValue(last.at, encryptedValue, NoOpts, r))]
      done == last.n + 1 = Len(found)
  IN /\ last.op = "rotateSecret" /\ last.h = h /\ last.ret = Running
     /\ IF ~hs[h].db
          THEN /\ last' = [last EXCEPT !.err = "TypeError", !.ret = ""]
               /\ UNCHANGED <<exists, meta, secrets, audit, hs, hist, files>>
          ELSE /\ Apply(Returned(log(w2, now, "rotate", last.key, secret.environment), ""))
               /\ last' = [last EXCEPT !.n = @ + 1, !.ret = IF done THEN "" ELSE Running]
               /\ hist' = IF done
                            THEN Put("rotateSecret", last.key, last.env, last.val,
                                     Returned(World, ""))
                            ELSE hist
     /\ UNCHANGED now

SearchSecrets(h, query) ==
  StoreCall("searchSecrets", h, query, "", "", NoOpts,
            searchSecrets(World, now, h, query))

GetSecretsForSync(h, environment) ==
  StoreCall("getSecretsForSync", h, "", environment, "", NoOpts,
            getSecretsForSync(World, now, h, environment))

\* the import command for one secret of the file
ImportSecret(h, key, value, environment, options) ==
  StoreCall("importSecret", h, key, environment, value, options,
            importSecret(World, now, h, key, value, environment, options))

PruneLogs(h, keepLast) ==
  /\ hs[h].auditLogger
  /\ \E K \in newest(audit, keepLast) :
       LET out == pruneLogs(World, keepLast, K) IN
       /\ Apply(out)
       /\ last' = [Call("pruneLogs", h, "", "", "", "", out) EXCEPT !.at = keepLast]
       /\ hist' = Reset
       /\ UNCHANGED now

\* isInitialized, isLocked and getState read and change nothing
Observe(h) ==
  /\ last' = Call("getState", h, "", "", "", "",
                  Out(World, "", getState(hs[h]),
                      IF isLocked(hs[h]) THEN 1 ELSE 0))
  /\ hist' = Reset
  /\ UNCHANGED <<now, exists, meta, secrets, audit, hs, files>>

\* a call of SessionManager: the session file is all it reads and writes
SessionCall(op, masterKey, left, n) ==
  /\ files' = [files EXCEPT !.session = left.f]
  /\ last' = Call(op, 0, "", "", "", masterKey, Out(World, "", left.ret, n))
  /\ hist' = [hist EXCEPT !.saved = CASE op = "saveSession" -> masterKey
                                      [] op \in {"deleteSession", "damage"} -> ""
                                      [] OTHER -> @]
  /\ UNCHANGED <<now, exists, meta, secrets, audit, hs>>

SaveSession(masterKey, timeoutMinutes) ==
  SessionCall("saveSession", masterKey,
              saveSession(files.session, now, masterKey, timeoutMinutes), timeoutMinutes)

LoadSession == SessionCall("loadSession", "", loadSession(files.session, now), NoVal)

DeleteSession ==
  SessionCall("deleteSession", "", Left(deleteSession(files.session), ""), NoVal)

HasValidSession ==
  SessionCall("hasValidSession", "", hasValidSession(files.session, now), NoVal)

ExtendSession(timeoutMinutes) ==
  SessionCall("extendSession", "",
              extendSession(files.session, now, timeoutMinutes), timeoutMinutes)

\* the session file is damaged from outside: its text is no longer JSON, a
\* field is gone from the record, or the session key in it is another one
\* (the auth tag then fails)
Damaged(f, how) ==
  CASE how = "json" -> [f EXCEPT !.json = FALSE]
    [] how = "sessionKey" -> [f EXCEPT !.sessionKey = NoVal]
    [] how = "expiresAt" -> [f EXCEPT !.expiresAt = NoVal]
    [] how = "encryptedMasterKey" -> [f EXCEPT !.encryptedMasterKey = NoSeal]
    [] how = "tag" -> [f EXCEPT !.sessionKey = Fresh({@})]

Damage(how) ==
  /\ files.session.there
  /\ SessionCall("damage", how, Left(Damaged(files.session, how), ""), NoVal)

\* a call of BackupManager: it reads and writes files only
BackupCall(op, password, left) ==
  /\ files' = left.fs
  /\ last' = Call(op, 0, password, "", "", "", Threw(World, left.err))
  /\ hist' = [hist EXCEPT !.backed =
                IF op = "createBackup" /\ left.err = ""
                  THEN [there |-> TRUE, data |-> files.vault.data, pw |-> password]
                  ELSE @]
  /\ UNCHANGED <<now, exists, meta, secrets, audit, hs>>

CreateBackup(password, salt, iv) ==
  BackupCall("createBackup", password,
             createBackup(files, now, password, [i \in 1..16 |-> salt], [i \in 1..12 |-> iv]))

RestoreBackup(password) ==
  BackupCall("restoreBackup", password, restoreBackup(files, password))

\* the backup file is damaged from outside: byte i of the ciphertext of an
\* encrypted backup is changed; hist.backed.there is dropped, the file is no
\* longer the one createBackup wrote
Tamper(i) ==
  LET backupData == files.backup.data
      start == 49 + readUInt32BE(backupData, 45)
  IN /\ files.backup.there
     /\ backupData[1] = 1
     /\ start + i <= Len(backupData)
     /\ files' = [files EXCEPT !.backup.data[start + i] = (@ + 1) % 256]
     /\ last' = Call("tamper", 0, "", "", "", "", Returned(World, ""))
     /\ hist' = [hist EXCEPT !.backed.there = FALSE]
     /\ UNCHANGED <<now, exists, meta, secrets, audit, hs>>

\* the database file is written by the engine: all BackupManager sees of it
\* is its bytes
WriteVault(data) ==
  BackupCall("writeVault", "", [fs |-> [files EXCEPT !.vault = File(data)], err |-> ""])

\* a run of the export or of the import command; when an export file is
\* written hist.exported notes the secrets the listing held, in plaintext
Command(op, h, password, filePassword, environment, done) ==
  /\ exists' = done.out.w.exists
  /\ meta' = done.out.w.meta
  /\ secrets' = done.out.w.secrets
  /\ audit' = done.out.w.audit
  /\ hs' = done.out.w.hs
  /\ files' = [files EXCEPT !.export = done.file]
  /\ last' = Call(op, h, filePassword, "", environment, "", done.out)
  /\ hist' = [Reset EXCEPT !.exported =
                IF op = "export" /\ done.file # files.export
                  THEN [there |-> TRUE, pw |-> filePassword,
                        S |-> {exported(rowToSecret(r), r.value.pt) :
                                 r \in SeqToSet(listedRows(World, environment))}]
                  ELSE @]
  /\ UNCHANGED now

Export(h, password, environment, exportPassword, salt, iv) ==
  Command("export", h, password, exportPassword, environment,
          exportCommand(World, files.export, now, h, password, environment,
                        exportPassword, salt, iv))

Import(h, password, importPassword) ==
  Command("import", h, password, importPassword, "",
          importCommand(World, files.export, now, h, password, importPassword))

Init ==
  /\ now = 0
  /\ exists = FALSE
  /\ meta = NoMeta
  /\ secrets = <<>>
  /\ audit = <<>>
  /\ hs = [h \in Handles |-> NewVaultManager(FALSE)]
  /\ last = Call("new", 0, "", "", "", "", Returned(World, ""))
  /\ hist = NoHist
  /\ calls = 0
  /\ files = [session |-> NoFile, vault |-> NoBytes, backup |-> NoBytes,
              preRestore |-> NoBytes, export |-> NoExport]

Timeouts == {NoVal, 1}

\* a call outside a session of the store, and a call of such a session
Kept == UNCHANGED calls
Counted == calls < MaxCalls /\ calls' = calls + 1
Timed == calls < MaxTimed /\ calls' = calls + 1

\* the life cycle of the handles HS
NextEngine(HS) ==
  \/ Kept /\ \E h \in HS, p \in Passwords, f \in BOOLEAN, tm \in Timeouts :
       Initialize(h, p, f, tm)
  \/ Kept /\ \E h \in HS, p \in Passwords, tm \in Timeouts : Unlock(h, p, tm)
  \/ Kept /\ \E h \in HS, p \in Passwords, q \in Passwords :
       ChangeMasterPassword(h, p, q)
  \/ Kept /\ \E h \in HS : Lock(h)
  \/ Kept /\ \E h \in HS : TimerFire(h)
  \/ Kept /\ \E h \in HS : Restart(h)
  \/ Kept /\ Tick

\* the calls that write rows of the secret store through handle h, over the
\* keys KS and environments ES: rows are added with a value of VS and
\* overwritten with one of WS
NextRows(h, KS, ES, VS, WS) ==
  \/ Counted /\ \E k \in KS, e \in ES, v \in VS : AddSecret(h, k, v, e, NoOpts)
  \/ Counted /\ \E k \in KS, e \in ES, v \in WS : UpdateSecret(h, k, v, e, NoOpts)
  \/ Counted /\ \E k \in KS, e \in ES : DeleteSecret(h, k, e)
  \/ Counted /\ \E k \in KS : DeleteSecretAllEnvs(h, k)
  \/ Counted /\ \E k \in KS, v \in WS, x \in ES \cup {NoEnv} : RotateSecret(h, k, v, x)
  \/ Counted /\ \E k \in KS, e \in ES, v \in WS : ImportSecret(h, k, v, e, NoOpts)

\* the calls that read rows
NextQueries(h, KS, ES) ==
  \/ Counted /\ \E k \in KS, e \in Environments : GetSecret(h, k, e)
  \/ Counted /\ \E k \in KS, e \in ES : GetSecretWithDetails(h, k, e)
  \/ Counted /\ \E e \in ES \cup {NoEnv} : ListSecrets(h, e)
  \/ Counted /\ \E q \in KS \cup {"K"} : SearchSecrets(h, q)
  \/ Counted /\ \E e \in ES : GetSecretsForSync(h, e)

Next == NextEngine({1})

Spec == Init /\ [][Next]_vars

\* two handles on one vault file: each may unlock (default timeout), lock, or
\* be replaced by a newly constructed one
NextHandles ==
  \/ Kept /\ \E h \in Handles : Initialize(h, "p1", FALSE, NoVal)
  \/ Kept /\ \E h \in Handles, p \in Passwords : Unlock(h, p, NoVal)
  \/ Kept /\ \E h \in Handles : Lock(h)
  \/ Kept /\ \E h \in Handles : Restart(h)
  \/ Kept /\ Tick

SpecHandles == Init /\ [][NextHandles]_vars

\* a session of the secret store behind one handle: up to MaxCalls calls of
\* the store and of the operations that change the key it works under, in
\* any order; a minute may pass between two of them. Rows are written in
\* 'dev' and 'all' and read in every environment; they are added with one
\* value and overwritten with another.
StoreKeys == {"K1"}
NextSecrets ==
  \/ Counted /\ \E f \in BOOLEAN : Initialize(1, "p1", f, NoVal)
  \/ Counted /\ \E p \in Passwords : Unlock(1, p, NoVal)
  \/ Counted /\ \E p \in Passwords, q \in Passwords : ChangeMasterPassword(1, p, q)
  \/ Counted /\ Lock(1)
  \/ NextRows(1, StoreKeys, {"dev", "all"}, {"v1"}, {"v2"})
  \/ NextQueries(1, StoreKeys, {"dev"})
  \/ Counted /\ now = 0 /\ Tick

SpecStore == Init /\ [][NextSecrets]_vars

\* the auto-lock timer of one handle: the vault is created with a timeout of
\* 1 or 5 minutes and unlocked with the persisted one or with 1 minute; every
\* secret operation is called on one key, up to MaxTimed calls in all, while
\* the clock runs; the timer callback runs once the deadline has passed and
\* the event loop is free (weak fairness)
TimerFires == Kept /\ TimerFire(1)
NextTimer ==
  \/ Timed /\ \E tm \in {1, LOCKOUT_DURATION_MIN} : Initialize(1, "p1", FALSE, tm)
  \/ Timed /\ \E p \in Passwords, tm \in Timeouts : Unlock(1, p, tm)
  \/ Timed /\ Lock(1)
  \/ TimerFires
  \/ Kept /\ Tick
  \/ Timed /\ Observe(1)
  \/ Timed /\ AddSecret(1, "K1", "v1", "all", NoOpts)
  \/ Timed /\ GetSecret(1, "K1", "all")
  \/ Timed /\ GetSecretWithDetails(1, "K1", "all")
  \/ Timed /\ ListSecrets(1, NoEnv)
  \/ Timed /\ UpdateSecret(1, "K1", "v1", "all", NoOpts)
  \/ Timed /\ DeleteSecret(1, "K1", "all")
  \/ Timed /\ DeleteSecretAllEnvs(1, "K1")
  \/ Timed /\ RotateSecret(1, "K1", "v1", NoEnv)
  \/ Timed /\ SearchSecrets(1, "K")
  \/ Timed /\ GetSecretsForSync(1, "all")

SpecTimer == Init /\ [][NextTimer]_vars /\ WF_vars(TimerFires)

\* one handle that overwrites the vault, adds and updates the two rows of one
\* key and changes the master password, up to MaxRekey calls in all
Rekeyed == calls < MaxRekey /\ calls' = calls + 1
NextRekey ==
  \/ Rekeyed /\ \E f \in BOOLEAN : Initialize(1, "p1", f, NoVal)
  \/ Rekeyed /\ \E p \in Passwords : Unlock(1, p, NoVal)
  \/ Rekeyed /\ Lock(1)
  \/ Rekeyed /\ \E e \in {"dev", "all"} : AddSecret(1, "K1", "v1", e, NoOpts)
  \/ Rekeyed /\ \E e \in {"dev", "all"} : UpdateSecret(1, "K1", "v2", e, NoOpts)
  \/ Rekeyed /\ \E e \in {"dev", "all"} : GetSecret(1, "K1", e)
  \/ Rekeyed /\ \E p, q \in Passwords : ChangeMasterPassword(1, p, q)

SpecRekey == Init /\ [][NextRekey]_vars

\* one handle that adds the rows of two keys and rotates a key, excluding one
\* environment or none
NextRotate ==
  \/ Counted /\ \E f \in BOOLEAN : Initialize(1, "p1", f, NoVal)
  \/ Counted /\ Unlock(1, "p1", NoVal)
  \/ Counted /\ Lock(1)
  \/ Counted /\ \E k \in Keys, e \in {"dev", "all"} : AddSecret(1, k, "v1", e, NoOpts)
  \/ Counted /\ \E k \in Keys, x \in {"dev", "all", NoEnv} : RotateSecret(1, k, "v2", x)
  \/ Counted /\ \E k \in Keys, e \in {"dev", "all"} : GetSecret(1, k, e)

SpecRotate == Init /\ [][NextRotate]_vars

\* calls and the timer callback on the event loop: a vault with a timeout of
\* one minute, the two rows of one key, a rotation that takes its rows one
\* at a time while the clock may run past the deadline
NextLoop ==
  \/ Counted /\ Idle /\ Initialize(1, "p1", FALSE, 1)
  \/ Counted /\ Idle /\ Unlock(1, "p1", 1)
  \/ Counted /\ Idle /\ \E e \in {"dev", "all"} : AddSecret(1, "K1", "v1", e, NoOpts)
  \/ Counted /\ Idle /\ \E x \in {"dev", NoEnv} : RotateBegin(1, "K1", "v2", x)
  \/ Kept /\ RotateRow(1)
  \/ Kept /\ Idle /\ TimerFire(1)
  \/ Kept /\ Tick

SpecLoop == Init /\ [][NextLoop]_vars

\* the audit log: calls that append to it, calls that fail, and pruneLogs
KeepSizes == 0..2
NextAudit ==
  \/ Counted /\ \E f \in BOOLEAN : Initialize(1, "p1", f, NoVal)
  \/ Counted /\ \E p \in Passwords : Unlock(1, p, NoVal)
  \/ Counted /\ Lock(1)
  \/ Counted /\ AddSecret(1, "K1", "v1", "dev", NoOpts)
  \/ Counted /\ \E e \in {"dev", "prod"} : GetSecret(1, "K1", e)
  \/ Counted /\ DeleteSecret(1, "K1", "dev")
  \/ Counted /\ \E n \in KeepSizes : PruneLogs(1, n)
  \/ Kept /\ Tick

SpecAudit == Init /\ [][NextAudit]_vars

\* the session cache of short-lived processes: sessions are saved for one
\* minute or for five, loaded, extended and deleted while the clock runs, and
\* the file may be damaged
NextSession ==
  \/ Kept /\ \E k \in MasterKeys, tm \in {1, LOCKOUT_DURATION_MIN} : SaveSession(k, tm)
  \/ Kept /\ LoadSession
  \/ Kept /\ DeleteSession
  \/ Kept /\ HasValidSession
  \/ Kept /\ \E tm \in {1, LOCKOUT_DURATION_MIN} : ExtendSession(tm)
  \/ Kept /\ \E how \in {"json", "sessionKey", "expiresAt", "encryptedMasterKey", "tag"} :
               Damage(how)
  \/ Kept /\ Tick

SpecSession == Init /\ [][NextSession]_vars

\* backups of a database file whose content changes, made and restored with
\* or without a password while the clock runs
NextBackup ==
  \/ Counted /\ \E data \in UNION {[1..n -> {0, 255}] : n \in 0..2} : WriteVault(data)
  \/ Counted /\ \E password \in Passwords \cup {""}, salt, iv \in {1, 2} :
                 CreateBackup(password, salt, iv)
  \/ Counted /\ \E password \in Passwords \cup {""} : RestoreBackup(password)
  \/ Counted /\ \E i \in 1..2 : Tamper(i)
  \/ Counted /\ Tick

SpecBackup == Init /\ [][NextBackup]_vars

\* secrets of any key and value, with or without a description and tags,
\* handed to the engine, exported to a file and imported from it
NextTransfer ==
  \/ Counted /\ \E f \in BOOLEAN : Initialize(1, "p1", f, NoVal)
  \/ Counted /\ Lock(1)
  \/ Counted /\ \E v \in {"v1", ""}, e \in {"dev", "all"},
                   o \in {NoOpts, [description |-> {"d"}, tags |-> {<<"t">>}]} :
                 AddSecret(1, "K1", v, e, o)
  \/ Counted /\ \E kv \in {<<"k1", "v1", "dev">>, <<"LONG", "v1", "prod">>,
                              <<"K1", Big, "dev">>} :
                 AddSecret(1, kv[1], kv[2], kv[3], NoOpts)
  \/ Counted /\ \E e \in {"dev", "all"},
                   o \in {NoOpts, [description |-> {"d"}, tags |-> {<<"t">>}],
                          [description |-> {"d"}, tags |-> {}]} :
                 UpdateSecret(1, "K1", "v2", e, o)
  \/ Counted /\ \E e \in {"dev", "all"} : DeleteSecret(1, "K1", e)
  \/ Counted /\ \E x \in Passwords, e \in {NoEnv, "dev"} : Export(1, "p1", e, x, 1, 2)
  \/ Counted /\ \E x \in Passwords : Import(1, "p1", x)
  \/ Counted /\ \E e \in {NoEnv, "dev", "all"} : ListSecrets(1, e)
  \/ Counted /\ now = 0 /\ Tick

SpecTransfer == Init /\ [][NextTransfer]_vars

\* ============================================================ claims
\* the persisted lockout deadline, when one is set
LockoutSet == meta.lockout_until \notin {NoVal, Empty}
InWindow == exists /\ LockoutSet /\ now < meta.lockout_until
PastWindow == exists /\ LockoutSet /\ now >= meta.lockout_until

\* this step is a call of op
Did(op) == last'.op = op
Caller == last'.h

\* C1: the third unlock in a row with a wrong password (the first made with
\* no failed attempt on record) throws LockedOut and sets lockout_until to
\* now + 5 min; while now < lockout_until every unlock, right password or
\* wrong, throws LockedOut; an unlock with the right password at
\* now >= lockout_until returns, leaves the handle UNLOCKED with the key
\* loaded and resets failed_attempts to 0 and lockout_until to empty, in the
\* table and in the handle.
C1_Step ==
  Did("unlock") =>
    /\ (hist.streak = MAX_FAILED_ATTEMPTS - 1 /\ hist'.streak = MAX_FAILED_ATTEMPTS) =>
         /\ last'.err = "LockedOut"
         /\ meta'.lockout_until = now + LOCKOUT_DURATION_MIN
    /\ InWindow => last'.err = "LockedOut"
    /\ (PastWindow /\ isCorrect(World, last'.pw)) =>
         /\ last'.err = ""
         /\ getState(hs'[Caller]) = "unlocked"
         /\ ~isLocked(hs'[Caller])
         /\ meta'.failed_attempts = 0 /\ meta'.lockout_until = Empty
         /\ hs'[Caller].failedAttempts = 0 /\ hs'[Caller].lockoutUntil = NoVal
C1_LockoutAfterThreeWrong == [][C1_Step]_vars

\* the right password was just turned away inside the window
C1_Witness ==
  /\ last.op = "unlock" /\ last.err = "LockedOut"
  /\ InWindow /\ isCorrect(World, last.pw)
  /\ meta.failed_attempts = MAX_FAILED_ATTEMPTS

\* C2: an unlock made while the persisted lockout_until is in the future
\* throws LockedOut without deriving a key, and leaves vault_meta (so
\* failed_attempts and lockout_until), the secrets, the audit log and the
\* handle's key as they were.
C2_Step ==
  (Did("unlock") /\ InWindow) =>
    /\ last'.err = "LockedOut"
    /\ last'.kdf = 0
    /\ meta' = meta /\ secrets' = secrets /\ audit' = audit
    /\ hs'[Caller].cryptoManager = hs[Caller].cryptoManager
    /\ hs'[Caller].failedAttempts = meta.failed_attempts
    /\ hs'[Caller].lockoutUntil = meta.lockout_until
C2_LockedOutBeforeDerivation == [][C2_Step]_vars

\* a wrong password was turned away inside the window, later than the
\* minute the lockout began
C2_Witness ==
  /\ last.op = "unlock" /\ last.err = "LockedOut" /\ last.kdf = 0
  /\ InWindow /\ ~isCorrect(World, last.pw)
  /\ meta.lockout_until < now + LOCKOUT_DURATION_MIN

\* C3: failed attempts add up in vault_meta whichever handle makes them: an
\* unlock with a wrong password outside a lockout window leaves the persisted
\* failed_attempts one above what it was (counting from 0 once a window has
\* run out), the one that makes it 3 throws LockedOut and sets lockout_until,
\* and inside the window every handle, a newly constructed one included, is
\* turned away with LockedOut.
C3_Before ==
  IF PastWindow \/ meta.failed_attempts = NoVal THEN 0 ELSE meta.failed_attempts
C3_Step ==
  (Did("unlock") /\ exists) =>
    /\ (~InWindow /\ ~isCorrect(World, last'.pw)) =>
         /\ meta'.failed_attempts = C3_Before + 1
         /\ (C3_Before + 1 = MAX_FAILED_ATTEMPTS) =>
              /\ last'.err = "LockedOut"
              /\ meta'.lockout_until = now + LOCKOUT_DURATION_MIN
    /\ InWindow => last'.err = "LockedOut"
C3_AttemptsAccumulateAcrossHandles == [][C3_Step]_vars

\* C4: with no lockout in force, unlock(pw) returns true and leaves the handle
\* UNLOCKED exactly when pw is the password of the latest initialize or
\* changeMasterPassword that returned; otherwise it throws and the handle
\* does not hold the key derived from pw.
C4_Step ==
  (Did("unlock") /\ exists /\ ~InWindow) =>
    /\ (last'.err = "") <=> (last'.pw = hist.master)
    /\ (last'.err = "") =>
         /\ last'.ret = "true"
         /\ getState(hs'[Caller]) = "unlocked"
         /\ hs'[Caller].cryptoManager = deriveMasterKey(last'.pw, meta.salt)
    /\ (last'.err # "") =>
         hs'[Caller].cryptoManager # deriveMasterKey(last'.pw, meta.salt)
C4_UnlockIffCurrentPassword == [][C4_Step]_vars

\* C5: the key is loaded exactly when the state is UNLOCKED.
C5_KeyLoadedIffUnlocked ==
  \A h \in Handles : (~isLocked(hs[h])) <=> (getState(hs[h]) = "unlocked")


\* ------------------------------------------------------ the secret store
StoreOps == {"addSecret", "getSecret", "getSecretWithDetails", "listSecrets",
             "updateSecret", "deleteSecret", "deleteSecretAllEnvs", "rotateSecret",
             "searchSecrets", "getSecretsForSync"}

\* UNLOCKED as the state machine has it: the key loaded, the database open
Unlocked(h) == getState(hs[h]) = "unlocked" /\ ~isLocked(hs[h]) /\ hs[h].db

\* what was encrypted into a row
Plaintext(row) == row.value.pt

\* C6: each of the ten secret operations, called on a handle that holds no
\* key, throws VaultLocked and leaves the secrets, the audit log, vault_meta
\* and the handle (its timer, which is disarmed, included) as they were.
C6_Step ==
  (last'.op \in StoreOps /\ isLocked(hs[Caller])) =>
    /\ last'.err = "VaultLocked"
    /\ secrets' = secrets /\ audit' = audit /\ meta' = meta
    /\ hs' = hs
    /\ hs[Caller].autoLockTimer = NoVal
C6_LockedVaultRejects == [][C6_Step]_vars

\* rotateSecret was turned away on a locked vault that holds a row and an
\* audit entry
C6_Witness ==
  /\ last.op = "rotateSecret" /\ last.err = "VaultLocked"
  /\ getState(hs[1]) = "locked" /\ isLocked(hs[1])
  /\ secrets # <<>> /\ audit # <<>>

\* C8: on an unlocked vault getSecret(k, e) returns the plaintext of row
\* (k, e) when that row exists, else, for e other than 'all', the plaintext
\* of row (k, 'all') when that exists, else null; so it never returns the
\* value of another environment's row and 'all' never falls back.
C8_Expected(key, environment) ==
  LET exact == getSecretRaw(World, key, environment)
      fallback == getSecretRaw(World, key, "all")
  IN IF exact # NoRow THEN Plaintext(exact)
     ELSE IF environment # "all" /\ fallback # NoRow THEN Plaintext(fallback)
     ELSE Null
C8_Step ==
  (Did("getSecret") /\ Unlocked(Caller)) =>
    /\ last'.err = ""
    /\ last'.ret = C8_Expected(last'.key, last'.env)
C8_GetSecretFallback == [][C8_Step]_vars

\* C9: on an unlocked vault, getSecret(k, e) returns v while the latest
\* addSecret(k, v, e) stands (the row not updated, rotated or deleted since),
\* and null once deleteSecret(k, e) has returned (the row not added again).
C9_Step ==
  (Did("getSecret") /\ Unlocked(Caller)) =>
    LET put == hist.put[<<last'.key, last'.env>>] IN
    /\ put \in Values => (last'.err = "" /\ last'.ret = put)
    /\ put = Gone => (last'.err = "" /\ last'.ret = Null)
C9_AddGetDeleteGet == [][C9_Step]_vars

\* C10: the table never holds two rows of one (key, environment); addSecret
\* on an unlocked vault throws SecretAlreadyExists and leaves the table as it
\* was when the row exists, and otherwise appends one row of that key and
\* environment and leaves the other rows as they were.
UniquePairs(rows) ==
  \A i, j \in 1..Len(rows) :
    (rows[i].key = rows[j].key /\ rows[i].environment = rows[j].environment) => i = j
C10_Step ==
  /\ UniquePairs(secrets')
  /\ (Did("addSecret") /\ Unlocked(Caller)) =>
       IF getSecretRaw(World, last'.key, last'.env) # NoRow
       THEN last'.err = "SecretAlreadyExists" /\ secrets' = secrets
       ELSE /\ last'.err = ""
            /\ Len(secrets') = Len(secrets) + 1
            /\ SubSeq(secrets', 1, Len(secrets)) = secrets
            /\ secrets'[Len(secrets')].key = last'.key
            /\ secrets'[Len(secrets')].environment = last'.env
            /\ Plaintext(secrets'[Len(secrets')]) = last'.val
C10_OneRowPerKeyAndEnvironment == [][C10_Step]_vars

\* a second addSecret of a pair was turned away a minute after the first,
\* with a row of the same key in another environment in the table
C10_Witness ==
  /\ last.op = "addSecret" /\ last.err = "SecretAlreadyExists"
  /\ Len(secrets) = 2 /\ secrets[1].key = secrets[2].key
  /\ \E i \in 1..2 : /\ secrets[i].environment = last.env
                      /\ secrets[i].created_at < now
                      /\ Plaintext(secrets[i]) # last.val

\* ------------------------------------------------------ the auto-lock timer
\* the timer of handle h is armed and its deadline has passed
Due(h) == hs[h].autoLockTimer # NoVal /\ now >= hs[h].autoLockTimer

\* C7: a secret operation called while the key is loaded moves the deadline
\* to autoLockTimeout after the call; isInitialized, isLocked and getState
\* leave the handle, the deadline included, as it was; the timer callback
\* leaves the handle LOCKED with no key and no timer; and once the deadline
\* has passed the handle is eventually LOCKED with no key, unless a call has
\* armed the timer again.
C7_Step ==
  /\ (last'.op \in StoreOps /\ ~isLocked(hs[Caller])) =>
       hs'[Caller].autoLockTimer = now + hs[Caller].autoLockTimeout
  /\ Did("getState") => hs' = hs
  /\ Did("timer") =>
       /\ getState(hs'[Caller]) = "locked"
       /\ isLocked(hs'[Caller])
       /\ hs'[Caller].autoLockTimer = NoVal
C7_LocksOrRearmed ==
  \/ getState(hs[1]) = "locked" /\ isLocked(hs[1])
  \/ hs[1].autoLockTimer # NoVal /\ now < hs[1].autoLockTimer
C7_AutoLock == [][C7_Step]_vars /\ (Due(1) ~> C7_LocksOrRearmed)

\* the timer locked a vault that had answered a secret operation
C7_Witness ==
  /\ last.op = "timer"
  /\ getState(hs[1]) = "locked" /\ isLocked(hs[1])
  /\ audit # <<>>
  /\ now > meta.created_at

\* ------------------------------------------------------ sync mapping
\* the rows of key k in environment e
RowsOf(k, e) == {r \in SeqToSet(secrets) : r.key = k /\ r.environment = e}

\* the row that serves key k in environment e: its own, else the 'all' one
Serving(k, e) ==
  IF RowsOf(k, e) # {} THEN CHOOSE r \in RowsOf(k, e) : TRUE
  ELSE CHOOSE r \in RowsOf(k, "all") : TRUE

\* C11: on an unlocked vault getSecretsForSync(e) returns a mapping whose
\* keys are exactly the keys with a row in e or in 'all', each mapped to the
\* plaintext of its row in e when there is one and of its 'all' row otherwise.
C11_Step ==
  (Did("getSecretsForSync") /\ Unlocked(Caller)) =>
    /\ last'.err = ""
    /\ DOMAIN last'.map =
         {k \in Keys : RowsOf(k, last'.env) # {} \/ RowsOf(k, "all") # {}}
    /\ \A k \in DOMAIN last'.map :
         last'.map[k] = Plaintext(Serving(k, last'.env))
C11_SyncAgreesWithRows == [][C11_Step]_vars

\* ------------------------------------------------ changeMasterPassword
\* the world this step leaves
After == [exists |-> exists', meta |-> meta', secrets |-> secrets',
          audit |-> audit', hs |-> hs']

\* the world after this step once handle h holds the key of password: as
\* left when h is unlocked, else after unlock(password)
Opened(h, password) ==
  IF getState(After.hs[h]) = "unlocked" /\ ~isLocked(After.hs[h]) /\ After.hs[h].db
  THEN Returned(After, "")
  ELSE unlock(After, now', h, password, NoVal)

\* C12: when changeMasterPassword(old, new) returns, the table holds the same
\* rows in the same order with the ids, keys and environments they had, every
\* row decrypts under the key of new to the plaintext it had, and once the
\* handle is unlocked with new, getSecret(k, e) returns that plaintext for
\* every row (k, e).
C12_Step ==
  (Did("changeMasterPassword") /\ last'.err = "") =>
    LET newKey == deriveMasterKey(last'.val, meta'.salt)
        opened == Opened(Caller, last'.val)
    IN /\ Len(secrets') = Len(secrets)
       /\ \A i \in 1..Len(secrets) :
            /\ secrets'[i].id = secrets[i].id
            /\ secrets'[i].key = secrets[i].key
            /\ secrets'[i].environment = secrets[i].environment
            /\ DecryptOk(newKey, secrets'[i].value)
            /\ Plaintext(secrets'[i]) = Plaintext(secrets[i])
            /\ opened.err = "" =>
                 LET got == getSecret(opened.w, now', Caller, secrets[i].key,
                                      secrets[i].environment)
                 IN got.err = "" /\ got.ret = Plaintext(secrets[i])
C12_PlaintextsPreserved == [][C12_Step]_vars

\* changeMasterPassword to another password returned on a vault with a row
C12_Witness ==
  /\ last.op = "changeMasterPassword" /\ last.err = ""
  /\ last.pw # last.val
  /\ secrets # <<>>

\* C13: when changeMasterPassword aborts because a row does not decrypt under
\* the old key, the table of secrets, the salt and the sentinel are as they
\* were before the call.
C13_Step ==
  (Did("changeMasterPassword") /\ last'.err = "DecryptionFailed") =>
    /\ secrets' = secrets
    /\ meta'.salt = meta.salt
    /\ meta'.sentinel = meta.sentinel
C13_AllOrNothing == [][C13_Step]_vars

\* ------------------------------------------------- one key for the vault
\* C14: in an initialized vault every stored value is encrypted under the key
\* the sentinel is encrypted under, so that a key decrypts a row exactly when
\* it decrypts the sentinel.
C14_RowsUnderSentinelKey ==
  (exists /\ meta.salt # NoVal) =>
    \A r \in SeqToSet(secrets) :
      \A salt \in UsedSalts(World), password \in Passwords :
        LET K == deriveMasterKey(password, salt)
        IN DecryptOk(K, r.value) <=> DecryptOk(K, meta.sentinel)

\* C15: initialize with force on an existing vault leaves no row of the
\* previous vault (listSecrets() is empty) and leaves the handle UNLOCKED
\* with the key of the new password.
C15_Step ==
  (Did("initialize") /\ exists /\ last'.err = "") =>
    /\ secrets' = <<>>
    /\ listSecrets(After, now', Caller, NoEnv).n = 0
    /\ getState(hs'[Caller]) = "unlocked"
    /\ hs'[Caller].cryptoManager = deriveMasterKey(last'.pw, meta'.salt)
    /\ isCorrect(After, last'.pw)
C15_ForceOverwrites == [][C15_Step]_vars

\* ------------------------------------------------------------ rotation
\* the environments this rotateSecret call excludes
Excluded == {last'.env} \ {NoEnv}

\* the positions of the rows this rotateSecret call is to rotate
Qualifying ==
  {i \in 1..Len(secrets) :
     secrets[i].key = last'.key /\ secrets[i].environment \notin Excluded}

\* C16: on an unlocked vault rotateSecret(k, v, exclude) throws SecretNotFound
\* and changes no table when k has no row outside exclude; otherwise it
\* returns the number of such rows, each of them then holds v encrypted
\* under the loaded key, and every other row is as it was.
C16_Step ==
  (Did("rotateSecret") /\ Unlocked(Caller)) =>
    IF Qualifying = {}
    THEN /\ last'.err = "SecretNotFound"
         /\ secrets' = secrets /\ audit' = audit /\ meta' = meta
    ELSE /\ last'.err = ""
         /\ last'.n = Cardinality(Qualifying)
         /\ Len(secrets') = Len(secrets)
         /\ \A i \in 1..Len(secrets) :
              IF i \in Qualifying
              THEN /\ Plaintext(secrets'[i]) = last'.val
                   /\ DecryptOk(hs[Caller].cryptoManager, secrets'[i].value)
                   /\ secrets'[i].id = secrets[i].id
                   /\ secrets'[i].key = secrets[i].key
                   /\ secrets'[i].environment = secrets[i].environment
              ELSE secrets'[i] = secrets[i]
C16_RotateSetsQualifyingRows == [][C16_Step]_vars

\* rotateSecret excluding 'dev' rotated the 'all' row of a key, and left its
\* 'dev' row and a row of the other key with the value they were added with
C16_Witness ==
  /\ last.op = "rotateSecret" /\ last.err = "" /\ last.env = "dev"
  /\ \E r \in SeqToSet(secrets) :
       r.key = last.key /\ r.environment = "all" /\ Plaintext(r) = "v2"
  /\ \E r \in SeqToSet(secrets) :
       r.key = last.key /\ r.environment = "dev" /\ Plaintext(r) = "v1"
  /\ \E r \in SeqToSet(secrets) : r.key # last.key /\ Plaintext(r) = "v1"

\* C17: after rotateSecret has returned, no two rows store the same nonce.
C17_Step ==
  (Did("rotateSecret") /\ last'.err = "") =>
    \A i, j \in 1..Len(secrets') :
      i # j => secrets'[i].value.iv # secrets'[j].value.iv
C17_FreshNoncePerRow == [][C17_Step]_vars

\* ------------------------------------------------- wrong-password unlock
\* the failed attempts that count when this unlock is made: those on record,
\* none once the lockout window is over
Counting ==
  IF PastWindow \/ meta.failed_attempts = NoVal THEN 0 ELSE meta.failed_attempts

\* C18: an unlock with a password under which the sentinel does not verify,
\* made outside a lockout window, raises the persisted failed_attempts by
\* one; while the count stays below 3 it throws WrongPassword carrying
\* 3 - count and sets no deadline; when the count reaches 3 it throws
\* LockedOut, sets lockout_until to now + 5 min and leaves the handle
\* LOCKED_OUT. It never throws DecryptionFailed.
C18_Step ==
  (Did("unlock") /\ exists /\ meta.salt # NoVal /\ ~InWindow
     /\ ~isCorrect(World, last'.pw)) =>
    /\ last'.err # "DecryptionFailed"
    /\ meta'.failed_attempts = Counting + 1
    /\ Counting + 1 < MAX_FAILED_ATTEMPTS =>
         /\ last'.err = "WrongPassword"
         /\ last'.n = MAX_FAILED_ATTEMPTS - (Counting + 1)
         /\ meta'.lockout_until = Empty
    /\ Counting + 1 >= MAX_FAILED_ATTEMPTS =>
         /\ last'.err = "LockedOut"
         /\ meta'.lockout_until = now + LOCKOUT_DURATION_MIN
         /\ getState(hs'[Caller]) = "locked_out"
C18_WrongPasswordCounted == [][C18_Step]_vars

\* the second wrong password in a row was turned away with one attempt left
C18_Witness ==
  /\ last.op = "unlock" /\ last.err = "WrongPassword" /\ last.n = 1
  /\ meta.failed_attempts = 2
  /\ hist.streak = 2

\* ---------------------------------------------------------------- lock
\* C19: lock() on a handle of an initialized vault does not throw and leaves
\* the timer disarmed, no key, the database closed and the state LOCKED,
\* whatever the state before (UNLOCKED, LOCKED or LOCKED_OUT, key loaded or
\* not); the tables are untouched; and a second lock() changes nothing.
C19_Step ==
  (Did("lock") /\ exists) =>
    /\ last'.err = ""
    /\ hs'[Caller].autoLockTimer = NoVal
    /\ isLocked(hs'[Caller])
    /\ ~hs'[Caller].db
    /\ getState(hs'[Caller]) = "locked"
    /\ meta' = meta /\ secrets' = secrets /\ audit' = audit /\ exists' = exists
    /\ lock(hs'[Caller]) = hs'[Caller]
    /\ (last.op = "lock" /\ last.h = Caller) => hs' = hs
C19_LockIdempotent == [][C19_Step]_vars

\* lock() has run on a handle that was locked out
C19_Witness ==
  /\ last.op = "lock" /\ exists
  /\ hs[last.h].lockoutUntil # NoVal
  /\ getState(hs[last.h]) = "locked"

\* ---------------------------------------------------------- initialize
\* C20: initialize without force throws VaultAlreadyInitialized when the
\* vault file exists, and then leaves the file (vault_meta with salt,
\* sentinel and lockout fields, the secrets, the audit log) and every handle
\* as they were; when no vault file exists it creates the vault and leaves
\* the handle UNLOCKED with the key of the password (isInitialized() true,
\* isLocked() false).
C20_Step ==
  (Did("initialize") /\ ~last'.force) =>
    IF exists
    THEN /\ last'.err = "VaultAlreadyInitialized"
         /\ UNCHANGED <<exists, meta, secrets, audit, hs>>
    ELSE /\ last'.err = ""
         /\ isInitialized(After)
         /\ ~isLocked(hs'[Caller])
         /\ getState(hs'[Caller]) = "unlocked"
         /\ hs'[Caller].db
         /\ isCorrect(After, last'.pw)
         /\ hs'[Caller].cryptoManager = deriveMasterKey(last'.pw, meta'.salt)
C20_InitializeGuarded == [][C20_Step]_vars

\* initialize without force was turned away from a vault that holds a row
C20_Witness ==
  /\ last.op = "initialize" /\ ~last.force
  /\ last.err = "VaultAlreadyInitialized"
  /\ secrets # <<>>

\* the session file before and after the step
Session == files.session
SessionAfter == files'.session
Stale(f, t) == f.there /\ f.expiresAt # NoVal /\ t > f.expiresAt
Forged(f) == readSessionData(f) /\ f.encryptedMasterKey.sk # f.sessionKey

\* C21: loadSession returns null and removes the session file whenever the
\* stored session is expired, cannot be parsed (invalid JSON or a missing
\* field) or fails the authentication of AES-GCM; afterwards the file does
\* not exist and hasValidSession() is false.
C21_Step ==
  (/\ Did("loadSession")
   /\ Session.there
   /\ \/ ~readSessionData(Session)
      \/ Stale(Session, now)
      \/ Forged(Session))
  => /\ last'.ret = Null
     /\ ~SessionAfter.there
     /\ hasValidSession(SessionAfter, now').ret = "false"

C21_LoadRemovesBadSession == [][C21_Step]_vars

\* C22: after saveSession(masterKey, t) the file expires at the save time
\* plus t minutes and, while it is neither deleted nor damaged, every
\* loadSession at now <= expiresAt returns masterKey and leaves the file as it
\* is; loadSession returns no key once now > expiresAt; only extendSession
\* changes expiresAt of a session that stays the same session.
C22_Step ==
  /\ Did("saveSession") =>
       /\ readSessionData(SessionAfter)
       /\ SessionAfter.expiresAt = now + last'.n
       /\ loadSession(SessionAfter, now') = Left(SessionAfter, last'.val)
  /\ (Did("loadSession") /\ hist.saved # "" /\ Session.there
        /\ now <= Session.expiresAt) =>
       /\ last'.ret = hist.saved
       /\ SessionAfter = Session
  /\ (Did("loadSession") /\ Stale(Session, now)) => last'.ret = Null
  /\ (/\ readSessionData(Session) /\ readSessionData(SessionAfter)
      /\ SessionAfter.sessionKey = Session.sessionKey
      /\ SessionAfter.encryptedMasterKey = Session.encryptedMasterKey
      /\ SessionAfter.expiresAt # Session.expiresAt) => Did("extendSession")

C22_SessionRoundTrip == [][C22_Step]_vars

\* a key saved earlier was loaded in the very minute the session expires
C22_Witness ==
  /\ last.op = "loadSession"
  /\ last.ret = hist.saved /\ last.ret \in MasterKeys
  /\ now = Session.expiresAt
  /\ now > Session.createdAt

\* the audit entries the step appended
Appended == SubSeq(audit', Len(audit) + 1, Len(audit'))
Logged(action, key) ==
  \E i \in 1..Len(Appended) :
    Appended[i].action = action /\ Appended[i].secret_key = key

\* C23: every access is logged: addSecret and updateSecret append a write
\* entry, getSecret and getSecretWithDetails a read entry, deleteSecret a
\* delete entry, rotateSecret one rotate entry per rotated row; no call
\* (getSecret, getSecretWithDetails, getSecretsForSync) returns a decrypted
\* value without appending at least one audit entry for that key.
C23_Step ==
  last'.err = "" =>
    /\ Did("addSecret") \/ Did("updateSecret") => Logged("write", last'.key)
    /\ (Did("getSecret") \/ Did("getSecretWithDetails")) /\ last'.ret # Null =>
         Logged("read", last'.key)
    /\ Did("deleteSecret") => Logged("delete", last'.key)
    /\ Did("rotateSecret") =>
         /\ Len(Appended) = last'.n
         /\ \A i \in 1..Len(Appended) :
              Appended[i].action = "rotate" /\ Appended[i].secret_key = last'.key
    /\ Did("getSecretsForSync") =>
         \A k \in DOMAIN last'.map : \E i \in 1..Len(Appended) : Appended[i].secret_key = k

C23_EveryAccessLogged == [][C23_Step]_vars

\* C24: restoreBackup(createBackup(V, pw), pw) leaves a database file that is
\* byte for byte V, for every content V and every password pw (or none),
\* whatever the database file held just before the restore.
C24_Step ==
  (/\ Did("restoreBackup")
   /\ hist.backed.there
   /\ files.backup.there
   /\ last'.pw = hist.backed.pw)
  => /\ last'.err = ""
     /\ files'.vault = File(hist.backed.data)

C24_BackupRoundTrip == [][C24_Step]_vars

\* an encrypted backup was restored over a database file that held other bytes
C24_Witness ==
  /\ last.op = "restoreBackup" /\ last.err = "" /\ last.pw = "p1"
  /\ files.vault.data = hist.backed.data
  /\ files.vault.data # <<>>
  /\ files.preRestore.there /\ files.preRestore # files.vault
  /\ files.backup.data[1] = 1

\* C25: exporting every secret of a set S held in a vault with a password and
\* importing the file with that password yields, for each entry of S, a row
\* with the same key, environment, plaintext value, description and tags.
C25_Step ==
  (/\ Did("import")
   /\ last'.err = ""
   /\ hist.exported.there
   /\ last'.pw = hist.exported.pw)
  => \A s \in hist.exported.S :
       \E r \in SeqToSet(secrets') : exported(rowToSecret(r), r.value.pt) = s

C25_ExportImportRoundTrip == [][C25_Step]_vars

\* C26: addSecret validates its input: a key that does not match
\* ^[A-Z][A-Z0-9_]*$ or is longer than 255 characters is rejected with
\* InvalidKey, a value of more than 64 KiB with SecretValueTooLarge; neither
\* inserts a row or writes an audit entry, so every stored row has a
\* syntactically valid key, whichever client called the engine.
C26_Step ==
  /\ (Did("addSecret") /\ Unlocked(Caller) /\ ~validateSecretKey(last'.key)) =>
       /\ last'.err = "InvalidKey"
       /\ secrets' = secrets /\ audit' = audit
  /\ (Did("addSecret") /\ Unlocked(Caller) /\ validateSecretKey(last'.key)
        /\ byteLength(last'.val) > MAX_SECRET_VALUE_SIZE) =>
       /\ last'.err = "SecretValueTooLarge"
       /\ secrets' = secrets /\ audit' = audit
  /\ \A r \in SeqToSet(secrets') : validateSecretKey(r.key)

C26_AddSecretValidates == [][C26_Step]_vars

\* the row (key, environment) of the call, before the step
Target == getSecretRaw(World, last'.key, last'.env)

\* C27: updateSecret(k, v, e, opts) on an existing row (k, e) changes only
\* that row: its plaintext becomes v, updated_at is set to now, description
\* and tags change only if opts gives them, and id, key, environment,
\* created_at, last_used_at and expires_at stay, as does every other row; on a
\* missing row it throws SecretNotFound, with no fallback to (k, 'all'), and
\* changes nothing.
C27_Step ==
  (/\ Did("updateSecret")
   /\ Unlocked(Caller)
   /\ byteLength(last'.val) <= MAX_SECRET_VALUE_SIZE)
  => IF Target = NoRow
       THEN last'.err = "SecretNotFound" /\ secrets' = secrets /\ audit' = audit
       ELSE
         /\ last'.err = ""
         /\ Len(secrets') = Len(secrets)
         /\ \A i \in 1..Len(secrets) :
              LET old == secrets[i]
                  new == secrets'[i]
              IN IF old # Target THEN new = old
                 ELSE /\ Plaintext(new) = last'.val
                      /\ new.value.mk = hs[Caller].cryptoManager
                      /\ new.updated_at = now
                      /\ new.description = IF last'.opts.description # {}
                                             THEN last'.opts.description
                                             ELSE old.description
                      /\ rowToSecret(new).tags = IF last'.opts.tags # {}
                                                   THEN last'.opts.tags
                                                   ELSE rowToSecret(old).tags
                      /\ new.id = old.id /\ new.key = old.key
                      /\ new.environment = old.environment
                      /\ new.created_at = old.created_at
                      /\ new.last_used_at = old.last_used_at
                      /\ new.expires_at = old.expires_at

C27_UpdateChangesOneRow == [][C27_Step]_vars

\* a row that has a description and tags was given a new value a minute
\* after it was made, without options, beside the row of 'all'
C27_Witness ==
  /\ last.op = "updateSecret" /\ last.err = "" /\ last.opts = NoOpts
  /\ \E r, o \in SeqToSet(secrets) :
       /\ r.key = last.key /\ r.environment = last.env
       /\ r.description = {"d"} /\ r.updated_at > r.created_at
       /\ o.key = last.key /\ o.environment = "all" /\ o # r

\* C28: deleteSecret(k, e) removes exactly row (k, e) and never the fallback
\* row: when (k, e) is absent it throws SecretNotFound and removes nothing,
\* even if (k, 'all') exists; deleteSecretAllEnvs(k) removes every row of key
\* k and returns their number, 0 without an error and without an audit entry
\* when there is none.
C28_Step ==
  /\ (Did("deleteSecret") /\ Unlocked(Caller)) =>
       IF Target = NoRow
         THEN last'.err = "SecretNotFound" /\ secrets' = secrets /\ audit' = audit
         ELSE /\ last'.err = ""
              /\ SeqToSet(secrets') = SeqToSet(secrets) \ {Target}
              /\ Len(secrets') = Len(secrets) - 1
  /\ (Did("deleteSecretAllEnvs") /\ Unlocked(Caller)) =>
       LET gone == {r \in SeqToSet(secrets) : r.key = last'.key}
       IN /\ last'.err = ""
          /\ SeqToSet(secrets') = SeqToSet(secrets) \ gone
          /\ Len(secrets') = Len(secrets) - Cardinality(gone)
          /\ last'.n = Cardinality(gone)
          /\ gone = {} => audit' = audit

C28_DeleteExactRow == [][C28_Step]_vars

\* deleteSecret of a missing (k, 'dev') was refused while (k, 'all') is stored
C28_Witness ==
  /\ last.op = "deleteSecret" /\ last.env = "dev" /\ last.err = "SecretNotFound"
  /\ \E r \in SeqToSet(secrets) : r.key = last.key /\ r.environment = "all"

\* C29: listSecrets(filter) returns exactly the rows whose environment is the
\* filter or 'all' (every row without a filter), ordered by (key,
\* environment), their values still encrypted; it changes no row
\* (last_used_at included) and appends no audit entry.
C29_Step ==
  (Did("listSecrets") /\ Unlocked(Caller)) =>
    LET listed == last'.rows
        wanted == {r \in SeqToSet(secrets) :
                     last'.env = NoEnv \/ r.environment \in {last'.env, "all"}}
    IN /\ last'.err = ""
       /\ SeqToSet(listed) = {rowToSecret(r) : r \in wanted}
       /\ Len(listed) = Cardinality(wanted)
       /\ \A i, j \in 1..Len(listed) : i < j => RowBefore(listed[i], listed[j])
       /\ \A i \in 1..Len(listed) : listed[i].value \in {r.value : r \in wanted}
       /\ secrets' = secrets
       /\ audit' = audit

C29_ListFiltered == [][C29_Step]_vars

\* a list filtered by 'dev' returned the rows of 'all' and 'dev', in that
\* order, and left out a row of another environment
C29_Witness ==
  /\ last.op = "listSecrets" /\ last.env = "dev" /\ last.err = ""
  /\ Len(last.rows) = 2
  /\ last.rows[1].environment = "all" /\ last.rows[2].environment = "dev"
  /\ Len(secrets) = 3

\* C30: getState() reports locked_out only while a lockout is in force: once
\* lockout_until has passed, the next unlock leaves the state unlocked if the
\* password is correct, and locked, with failed_attempts restarted at 1 and
\* no lockout_until, if it is wrong; never locked_out.
C30_Step ==
  (Did("unlock") /\ PastWindow /\ meta.salt # NoVal)
  => IF isCorrect(World, last'.pw)
       THEN last'.err = "" /\ getState(hs'[Caller]) = "unlocked"
       ELSE /\ last'.err = "WrongPassword"
            /\ getState(hs'[Caller]) = "locked"
            /\ meta'.failed_attempts = 1
            /\ meta'.lockout_until \in {NoVal, Empty}

C30_StateAfterLockoutExpiry == [][C30_Step]_vars

\* C31: the timer callback never interleaves with a call in flight: a call
\* runs to completion, all its row writes and audit entries applied, before
\* the timer-driven lock() drops the key and closes the database; the lock
\* sees all prior writes and no call sees the key or the database handle
\* disappear midway.
C31_Step ==
  /\ last.ret = Running => Did("rotateSecret") \/ Did("tick")
  /\ (Did("rotateSecret") /\ last.ret = Running) => last'.err = ""
  /\ (Did("timer") /\ last.op = "rotateSecret" /\ last.err = "") =>
       LET rotated == {r \in SeqToSet(secrets) :
                         r.key = last.key /\ r.environment # last.env}
       IN /\ \A r \in rotated : Plaintext(r) = last.val /\ r.updated_at = last.at
          /\ last.n = Cardinality(rotated)
          /\ \A i \in 1..last.n : audit[Len(audit) + 1 - i].action = "rotate"

C31_TimerAfterCompletion == [][C31_Step]_vars

\* the timer locked the handle after a rotation of two rows whose deadline
\* passed while the rotation was in flight
C31_Witness ==
  /\ last.op = "timer" /\ isLocked(hs[1])
  /\ Len(audit) >= 2
  /\ audit[Len(audit)].action = "rotate" /\ audit[Len(audit) - 1].action = "rotate"
  /\ \E r \in SeqToSet(secrets) :
       Plaintext(r) = "v2" /\ r.updated_at < audit[Len(audit)].timestamp

\* C32: every master-key buffer the engine stops referencing on a path that
\* does not throw was zero-filled first: in lock(), in the timer-driven lock,
\* in an unlock that returns while a key is installed (the replaced key), and
\* for both the old and the newly derived key of changeMasterPassword.
C32_Step ==
  /\ (Did("lock") \/ Did("timer")) =>
       \A b \in lockReleases(hs[Caller]) : b.zeroed
  /\ (Did("unlock") /\ last'.err = "") =>
       \A b \in unlockReleases(World, now, Caller, last'.pw) : b.zeroed
  /\ (Did("changeMasterPassword") /\ last'.err = "") =>
       \A b \in changeMasterPasswordReleases(World, now, Caller, last'.pw, last'.val) :
          b.zeroed

C32_KeysZeroedOnRelease == [][C32_Step]_vars

\* C33: the audit log is append-only: a call other than pruneLogs, failed
\* calls and initialize included, leaves every existing entry in place;
\* pruneLogs(n) removes exactly the entries that are not among the n most
\* recent by timestamp and returns the number removed, max(0, total - n).
C33_Step ==
  /\ ~Did("pruneLogs") =>
       /\ Len(audit') >= Len(audit)
       /\ SubSeq(audit', 1, Len(audit)) = audit
  /\ Did("pruneLogs") =>
       LET total == Len(audit)
           removed == IF total > last'.at THEN total - last'.at ELSE 0
       IN /\ last'.n = removed
          /\ Len(audit') = total - removed
          /\ \E K \in SUBSET (1..total) :
               /\ audit' = rowsAt(audit, K, 1)
               /\ Cardinality(K) = total - removed
               /\ \A i \in K, j \in (1..total) \ K :
                    audit[i].timestamp >= audit[j].timestamp

C33_AuditAppendOnly == [][C33_Step]_vars

\* pruneLogs(1) removed the older of two entries with different timestamps
C33_Witness ==
  /\ last.op = "pruneLogs" /\ last.at = 1 /\ last.n >= 1
  /\ Len(audit) = 1 /\ audit[1].timestamp > 0

\* C34: restoreBackup of an encrypted backup with no password, with a wrong
\* password or with a tampered ciphertext throws before it touches a file:
\* the database file is bit for bit what it was and no vault-pre-restore copy
\* is made; only a restore that parsed and decrypted copies the current
\* database file aside and then overwrites it.
Tampered == files.backup.there /\ ~hist.backed.there
C34_Step ==
  Did("restoreBackup") =>
    /\ (/\ files.backup.there /\ files.backup.data[1] = 1
        /\ \/ last'.pw = ""
           \/ last'.pw # hist.backed.pw
           \/ Tampered)
       => last'.err # ""
    /\ last'.err # "" => files' = files
    /\ last'.err = "" =>
         /\ files'.preRestore = IF files.vault.there THEN files.vault ELSE files.preRestore
         /\ files'.vault.there
         /\ files'.backup = files.backup

C34_RestoreFailsUntouched == [][C34_Step]_vars

\* a restore with the right password was refused for a tampered ciphertext,
\* while a database file with other bytes than the backed-up ones was in place
C34_Witness ==
  /\ last.op = "restoreBackup" /\ last.err = "DecryptFailed"
  /\ last.pw = hist.backed.pw
  /\ Tampered
  /\ files.vault.there /\ files.vault.data # hist.backed.data
  /\ ~files.preRestore.there

\* C35: whenever isLocked() is false the engine holds an open database handle:
\* no sequence of initialize, unlock (a rejected unlock on an unlocked handle
\* included), lock, timer firing and changeMasterPassword reaches a state in
\* which a call passes ensureUnlocked while the database handle is closed or
\* null.
C35_OpenDatabaseWhileUnlocked ==
  ~isLocked(hs[1]) => hs[1].db

\* C36: the auto-lock timer is armed if and only if a master key is loaded:
\* after every call has returned or thrown, the timer handle is non-null
\* exactly when isLocked() is false.
C36_TimerArmedIffKeyLoaded ==
  (hs[1].autoLockTimer # NoVal) <=> ~isLocked(hs[1])

\* a rejected unlock on an unlocked handle left the key loaded and the timer
\* armed
C36_Witness ==
  /\ last.op = "unlock" /\ last.err = "WrongPassword"
  /\ ~isLocked(hs[1])
  /\ hs[1].autoLockTimer # NoVal

\* C37: in every reachable state the persisted failed_attempts is between 0
\* and MAX_FAILED_ATTEMPTS, and it is MAX_FAILED_ATTEMPTS exactly when
\* lockout_until is set; after every unlock call, returned or thrown, the
\* handle's failedAttempts and lockoutUntil equal the persisted ones.
Persisted(m) ==
  [failedAttempts |-> IF m.failed_attempts = NoVal THEN 0 ELSE m.failed_attempts,
   lockoutUntil |-> IF m.lockout_until = Empty THEN NoVal ELSE m.lockout_until]
C37_Step ==
  /\ Persisted(meta').failedAttempts \in 0..MAX_FAILED_ATTEMPTS
  /\ Persisted(meta').failedAttempts = MAX_FAILED_ATTEMPTS
       <=> Persisted(meta').lockoutUntil # NoVal
  /\ Did("unlock") =>
       /\ hs'[Caller].failedAttempts = Persisted(meta').failedAttempts
       /\ hs'[Caller].lockoutUntil = Persisted(meta').lockoutUntil

C37_LockoutCounterMirrored == [][C37_Step]_vars

\* the third wrong password in a row was refused: the counter is at
\* MAX_FAILED_ATTEMPTS and the deadline is set, in the file and in the handle
C37_Witness ==
  /\ last.op = "unlock" /\ last.err = "LockedOut"
  /\ meta.failed_attempts = MAX_FAILED_ATTEMPTS
  /\ hs[1].failedAttempts = MAX_FAILED_ATTEMPTS
  /\ meta.lockout_until = now + LOCKOUT_DURATION_MIN
  /\ hs[1].lockoutUntil = meta.lockout_until

\* C38: for a handle with exclusive access to its database path, getState()
\* is not_initialized if and only if isInitialized() is false (no vault file
\* exists), after any sequence of calls; lock() on a handle whose vault was
\* never initialized leaves the state not_initialized, not locked.
C38_NotInitializedIffNoVault ==
  getState(hs[1]) = "not_initialized" <=> ~isInitialized(World)

\* C39: while lockout_until is in the future, the outcome of every call that
\* takes a password (unlock, changeMasterPassword) does not depend on whether
\* the password is correct: the same call made with the other candidate
\* password ends with the same result and leaves the same vault state, so
\* changeMasterPassword cannot serve as a password check during the lockout.
OtherPassword == CHOOSE p \in Passwords : p # last'.pw
SameOutcome(out) ==
  /\ last'.err = out.err
  /\ exists' = out.w.exists
  /\ meta' = out.w.meta
  /\ secrets' = out.w.secrets
  /\ audit' = out.w.audit
  /\ hs' = out.w.hs
C39_Step ==
  /\ (Did("unlock") /\ InWindow) =>
       SameOutcome(unlock(World, now, Caller, OtherPassword, NoVal))
  /\ (Did("changeMasterPassword") /\ InWindow) =>
       SameOutcome(changeMasterPassword(World, now, Caller, OtherPassword, last'.val))

C39_LockoutHidesPassword == [][C39_Step]_vars

\* C40: after initialize has returned, also with force on an existing vault
\* whose lockout is active or whose failed_attempts is not zero, the persisted
\* failed_attempts is 0 and lockout_until is empty, so that lock() followed by
\* unlock with the password just set succeeds at once.
C40_Step ==
  (Did("initialize") /\ last'.err = "") =>
    /\ meta'.failed_attempts \in {NoVal, 0}
    /\ meta'.lockout_until \in {NoVal, Empty}
    /\ unlock(SetH(World', Caller, lock(hs'[Caller])), now, Caller, last'.pw, NoVal).err = ""

C40_InitializeClearsLockout == [][C40_Step]_vars

====
